---- MODULE Spec2Model ----
(***************************************************************************)
(* A model of ipscan-rs: the collect-all orchestrator Scanner::scan        *)
(* (core/scanner.rs), the per-host ScanningSubject and ScanningResult, the *)
(* four fetchers, the fetcher registry, the range feeder and the port      *)
(* specification parser.                                                   *)
(*                                                                         *)
(* Text is modelled as a sequence of one-character strings, so that        *)
(* formatting and parsing are computed character by character.             *)
(***************************************************************************)
EXTENDS Integers, Sequences, FiniteSets, Bags, TLC

\* Largest number of addresses of a fed range.
MaxHosts == 2

\* ------------------------------------------------------------------ text

NA == <<"[", "n", "/", "a", "]">>
NS == <<"[", "n", "/", "s", "]">>

Digits == <<"0", "1", "2", "3", "4", "5", "6", "7", "8", "9">>

IsDigit(c) == \E i \in 1..10 : Digits[i] = c

DigitVal(c) == (CHOOSE i \in 1..10 : Digits[i] = c) - 1

\* format!("{}", n) of an unsigned integer.
RECURSIVE DecStr(_)
DecStr(n) == IF n < 10 THEN <<Digits[n + 1]>>
             ELSE DecStr(n \div 10) \o <<Digits[(n % 10) + 1]>>

IsSpace(c) == c = " "

\* str::trim
RECURSIVE TrimStart(_)
TrimStart(s) == IF s # <<>> /\ IsSpace(Head(s)) THEN TrimStart(Tail(s)) ELSE s

RECURSIVE TrimEnd(_)
TrimEnd(s) == IF s # <<>> /\ IsSpace(s[Len(s)])
              THEN TrimEnd(SubSeq(s, 1, Len(s) - 1)) ELSE s

Trim(s) == TrimEnd(TrimStart(s))

\* str::contains(char)
Contains(s, c) == \E i \in 1..Len(s) : s[i] = c

\* str::split(char): always at least one piece.
RECURSIVE Split(_, _)
Split(s, c) ==
    IF ~Contains(s, c) THEN <<s>>
    ELSE LET i == CHOOSE k \in 1..Len(s) :
                      s[k] = c /\ \A j \in 1..(k - 1) : s[j] # c
         IN <<SubSeq(s, 1, i - 1)>> \o Split(SubSeq(s, i + 1, Len(s)), c)

\* [String]::join(",")
RECURSIVE Join(_, _)
Join(parts, sep) ==
    IF parts = <<>> THEN <<>>
    ELSE IF Len(parts) = 1 THEN parts[1]
    ELSE parts[1] \o sep \o Join(Tail(parts), sep)

U16_MAX == 65535

\* The value of a string of digits, or -1 once it exceeds u16.
RECURSIVE DigitsValue(_, _)
DigitsValue(s, acc) ==
    IF s = <<>> THEN acc
    ELSE IF ~IsDigit(Head(s)) THEN -1
    ELSE LET v == acc * 10 + DigitVal(Head(s))
         IN IF v > U16_MAX THEN -1 ELSE DigitsValue(Tail(s), v)

\* u16::from_str: an optional '+', then one or more digits, value <= 65535.
\* -1 stands for Err.
ParseU16(s) ==
    LET body == IF s # <<>> /\ Head(s) = "+" THEN Tail(s) ELSE s
    IN IF body = <<>> THEN -1 ELSE DigitsValue(body, 0)

\* ------------------------------------------------------- port specification

MAX_PORTS == 65535

\* start..=end as a Vec
RangeSeq(lo, hi) == [i \in 1..(hi - lo + 1) |-> lo + i - 1]

\* Vec::sort_unstable
SortUnstable(s) == SortSeq(s, LAMBDA a, b : a < b)

\* A dedup that keeps everything.
DedupNone(s) == s

\* Vec::dedup: drops every element equal to the one before it. `kept` are
\* the indices that stay.
Kept(s) == SelectSeq([i \in 1..Len(s) |-> i],
                     LAMBDA i : i = 1 \/ s[i] # s[i - 1])

Pick(s, kept) == [k \in 1..Len(kept) |-> s[kept[k]]]

Dedup(s) == Pick(s, Kept(s))

\* Err(String), and a panic (`attempt to add with overflow`).
PortErr == [ok |-> FALSE, panicked |-> FALSE, ports |-> <<>>]
PortPanic == [ok |-> FALSE, panicked |-> TRUE, ports |-> <<>>]
PortOk(ports) == [ok |-> TRUE, panicked |-> FALSE, ports |-> ports]

\* A range whose two ports parsed (port_iterator.rs 27-38).
\* `end - start + 1` is computed in u16: for 0-65535 it overflows, which
\* panics in a build with overflow checks and wraps to 0 in one without.
ParseBounds(start, end, ports, overflow_checks) ==
    IF start > end THEN PortErr
    ELSE IF end - start + 1 > U16_MAX /\ overflow_checks THEN PortPanic
    ELSE IF Len(ports) + ((end - start + 1) % (U16_MAX + 1)) > MAX_PORTS
    THEN PortErr
    ELSE PortOk(ports \o RangeSeq(start, end))

\* The two `?` of a range (port_iterator.rs 22-25).
ParseEnds(start, end, ports, overflow_checks) ==
    IF start = -1 \/ end = -1 THEN PortErr
    ELSE ParseBounds(start, end, ports, overflow_checks)

\* A token holding '-', split at every '-' (port_iterator.rs 17-38).
ParseRange(range, ports, overflow_checks) ==
    IF Len(range) # 2 THEN PortErr
    ELSE ParseEnds(ParseU16(Trim(range[1])), ParseU16(Trim(range[2])),
                   ports, overflow_checks)

\* A token without '-' (port_iterator.rs 40-42).
ParseSingle(port, ports) ==
    IF port = -1 THEN PortErr ELSE PortOk(Append(ports, port))

\* One trimmed token, given the ports pushed so far.
ParseTrimmed(part, ports, overflow_checks) ==
    IF Contains(part, "-")
    THEN ParseRange(Split(part, "-"), ports, overflow_checks)
    ELSE ParseSingle(ParseU16(part), ports)

\* One token of the specification, given the ports pushed so far.
ParsePart(rawPart, ports, overflow_checks) ==
    ParseTrimmed(Trim(rawPart), ports, overflow_checks)

RECURSIVE ParseParts(_, _, _)

\* After one token: an Err or a panic leaves new, else the loop goes on.
ParseRest(r, rest, overflow_checks) ==
    IF ~r.ok THEN r ELSE ParseParts(rest, r.ports, overflow_checks)

\* for part in port_string.split(',')
ParseParts(parts, ports, overflow_checks) ==
    IF parts = <<>> THEN PortOk(ports)
    ELSE ParseRest(ParsePart(Head(parts), ports, overflow_checks),
                   Tail(parts), overflow_checks)

RECURSIVE LoopLeftWith(_, _, _)

\* `ports` as the loop leaves it: after the last token, or at the token
\* whose Err or panic leaves new.
LoopLeftWith(parts, ports, overflow_checks) ==
    IF parts = <<>> THEN ports
    ELSE IF ~ParsePart(Head(parts), ports, overflow_checks).ok THEN ports
    ELSE LoopLeftWith(Tail(parts),
                      ParsePart(Head(parts), ports, overflow_checks).ports,
                      overflow_checks)

\* The final length check (port_iterator.rs 49-56).
Capped(ports) == IF Len(ports) > MAX_PORTS THEN PortErr ELSE PortOk(ports)

\* sort_unstable, dedup and the final check, after the loop.
Finished(r) == IF ~r.ok THEN r ELSE Capped(Dedup(SortUnstable(r.ports)))

\* PortIterator::new
PortIteratorNew(port_string, overflow_checks) ==
    Finished(ParseParts(Split(port_string, ","), <<>>, overflow_checks))

\* A formatter that writes a run's end one short.
FormatRangeShort(start, end) ==
    IF start = end THEN DecStr(start)
    ELSE DecStr(start) \o <<"-">> \o DecStr(end - 1)

FormatRange(start, end) ==
    IF start = end THEN DecStr(start)
    ELSE DecStr(start) \o <<"-">> \o DecStr(end)

\* A loop that never extends a run.
RECURSIVE FormatLoopNoRuns(_, _, _, _)
FormatLoopNoRuns(rest, start, end, ranges) ==
    IF rest = <<>> THEN Append(ranges, FormatRange(start, end))
    ELSE FormatLoopNoRuns(Tail(rest), Head(rest), Head(rest),
                          Append(ranges, FormatRange(start, end)))

\* The loop of format_ports over ports[1..].
RECURSIVE FormatLoop(_, _, _, _)
FormatLoop(rest, start, end, ranges) ==
    IF rest = <<>> THEN Append(ranges, FormatRange(start, end))
    ELSE LET port == Head(rest)
         IN IF port = end + 1
            THEN FormatLoop(Tail(rest), start, port, ranges)
            ELSE FormatLoop(Tail(rest), port, port,
                            Append(ranges, FormatRange(start, end)))

\* format_ports
format_ports(ports) ==
    IF ports = <<>> THEN <<>>
    ELSE Join(FormatLoop(Tail(ports), ports[1], ports[1], <<>>), <<",">>)

\* The port specifications a configuration can carry.
PortStrings == { <<"8", "0">>, <<"8", "0", "-", "7", "0">> }

\* The port specifications one host's chain is run under: those, the empty
\* and the blank one, and one that names three ports out of order.
ChainPortStrings ==
    PortStrings \cup {<<>>, <<" ">>, <<"8", "2", ",", "8", "0", "-", "8", "1">>}

\* PortIterator::new(&self.config.port_string), tabulated over the
\* specifications above (none of them has a range whose size overflows).
PortIteratorOf == [s \in ChainPortStrings |-> PortIteratorNew(s, FALSE)]

\* ------------------------------------------------------------ registry

\* FetcherRegistry::new
RegistryNew == [fetchers |-> <<>>, selected |-> <<>>]

\* A register that also selects what it adds.
RegisterSelecting(reg, fetcher) ==
    [reg EXCEPT !.fetchers = Append(@, fetcher),
                !.selected = Append(@, Len(reg.fetchers))]

\* FetcherRegistry::register
Register(reg, fetcher) == [reg EXCEPT !.fetchers = Append(@, fetcher)]

\* (0..n).collect()
RECURSIVE IndexSeq(_)
IndexSeq(n) == IF n = 0 THEN <<>> ELSE Append(IndexSeq(n - 1), n - 1)

\* FetcherRegistry::register_default_fetchers
RegisterDefaultFetchers(reg) ==
    LET r == Register(Register(Register(Register(reg, "ping"), "hostname"),
                               "ports"), "mac")
    IN [r EXCEPT !.selected = IndexSeq(Len(r.fetchers))]

\* FetcherRegistry::get_selected_fetchers (indices are 0-based)
RECURSIVE FilterMapGet(_, _)
FilterMapGet(sel, fetchers) ==
    IF sel = <<>> THEN <<>>
    ELSE LET i == Head(sel)
             rest == FilterMapGet(Tail(sel), fetchers)
         IN IF i < Len(fetchers) THEN <<fetchers[i + 1]>> \o rest ELSE rest

\* A selection that is everything registered.
GetAllFetchers(reg) == reg.fetchers

GetSelectedFetchers(reg) == FilterMapGet(reg.selected, reg.fetchers)

\* ------------------------------------------------- subject and result

None == [some |-> FALSE, v |-> 0]
Some(x) == [some |-> TRUE, v |-> x]

\* HashMap::new() of the subject's keyed side-channel
NoParameters == [k \in {} |-> 0]

\* ScanningSubject::new
SubjectNew == [result_type |-> "Unknown", aborted |-> FALSE,
               adapted_port_timeout |-> None, parameters |-> NoParameters]

\* ScanningSubject::set_parameter
SetParameter(subject, key, value) ==
    [subject EXCEPT !.parameters = [k \in (DOMAIN @) \cup {key} |->
                                       IF k = key THEN value ELSE @[k]]]

\* ScanningSubject::set_result_type
SetResultType(subject, result_type) ==
    [subject EXCEPT !.result_type = result_type]

\* An abort that toggles the flag.
AbortToggling(subject) == [subject EXCEPT !.aborted = ~@]

\* ScanningSubject::abort
Abort(subject) == [subject EXCEPT !.aborted = TRUE]

\* ScanningSubject::set_adapted_port_timeout
SetAdaptedPortTimeout(subject, timeout) ==
    [subject EXCEPT !.adapted_port_timeout = Some(timeout)]

\* ScanningSubject::adapted_port_timeout
AdaptedPortTimeout(subject, cfg) ==
    IF subject.adapted_port_timeout.some THEN subject.adapted_port_timeout.v
    ELSE cfg.port_timeout_ms

NoValues == [k \in {} |-> <<>>]

\* ScanningResult::new
ResultNew(address) == [address |-> address, values |-> NoValues,
                       result_type |-> "Unknown"]

\* ScanningResult::add_value
AddValue(result, key, value) ==
    [result EXCEPT !.values = [k \in (DOMAIN @) \cup {key} |->
                                  IF k = key THEN value ELSE @[k]]]

\* ------------------------------------------------------------- fetchers
\* A fetcher's scan maps the subject and what the network answered to the
\* subject afterwards and Ok(value) or Err.

Ok(subject, value) == [ok |-> TRUE, value |-> value, subject |-> subject]
Err(subject) == [ok |-> FALSE, value |-> <<>>, subject |-> subject]

RECURSIVE SumSeq(_)
SumSeq(s) == IF s = <<>> THEN 0 ELSE Head(s) + SumSeq(Tail(s))

Max(a, b) == IF a >= b THEN a ELSE b

\* An adapted timeout without the configured floor.
AdaptedNoFloor(avg_ms, cfg) == avg_ms * 3

\* The adapted timeout derived from the average round trip (ping.rs 61-62).
Adapted(avg_ms, cfg) == Max(avg_ms * 3, cfg.min_port_timeout_ms)

\* PingFetcher::scan. clientOk: Client::new succeeded. attempts: one entry
\* per ping sent, 0 for a failed or timed-out attempt, else its round trip
\* in milliseconds.
PingScan(subject, cfg, clientOk, attempts) ==
    IF ~clientOk THEN Err(subject)
    ELSE LET good == SelectSeq(attempts, LAMBDA d : d > 0)
             successful_pings == Len(good)
         IN IF successful_pings > 0
            THEN LET avg_time == SumSeq(good) \div successful_pings
                     alive == SetResultType(subject, "Alive")
                 IN Ok(IF cfg.adapt_port_timeout
                       THEN SetAdaptedPortTimeout(alive, Adapted(avg_time, cfg))
                       ELSE alive,
                       DecStr(avg_time) \o <<" ", "m", "s">>)
            ELSE LET dead == SetResultType(subject, "Dead")
                 IN Ok(IF ~cfg.scan_dead_hosts THEN Abort(dead) ELSE dead,
                       NA)

\* A name lookup that marks a host with a name as alive.
HostnameScanMarking(subject, joined, answer) ==
    IF ~joined THEN Err(subject)
    ELSE IF answer THEN Ok(SetResultType(subject, "Alive"), <<"h", "o", "s", "t">>)
    ELSE Ok(subject, NA)

\* HostnameFetcher::scan. answer: TRUE for a resolved name, FALSE for a
\* failed lookup; joined: the blocking task was joined without a JoinError.
HostnameScan(subject, joined, answer) ==
    IF ~joined THEN Err(subject)
    ELSE Ok(subject, IF answer THEN <<"h", "o", "s", "t">> ELSE NA)

\* MacFetcher::scan. found: the neighbour table holds the address.
MacScan(subject, joined, found) ==
    IF ~joined THEN Err(subject)
    ELSE Ok(subject, IF found THEN <<"A", "A", ":", "B", "B">> ELSE NA)

\* PortsFetcher::scan. open: the ports whose connect succeeded in time.
PortsScan(subject, cfg, open) ==
    LET port_iterator == PortIteratorOf[cfg.port_string]
    IN IF ~port_iterator.ok THEN Err(subject)
       ELSE IF port_iterator.ports = <<>> THEN Ok(subject, NS)
       ELSE LET open_ports == SelectSeq(port_iterator.ports,
                                        LAMBDA p : p \in open)
            IN IF open_ports # <<>>
               THEN Ok(SetResultType(subject, "WithPorts"),
                       format_ports(open_ports))
               ELSE Ok(subject, NA)

\* The timeout PortsFetcher::scan passes to every connect, None when it
\* returns before reading it.
PortsTimeout(subject, cfg) ==
    LET port_iterator == PortIteratorOf[cfg.port_string]
    IN IF ~port_iterator.ok \/ port_iterator.ports = <<>> THEN None
       ELSE Some(AdaptedPortTimeout(subject, cfg))

\* --------------------------------------------------------------- feeder

\* The integer widths of the feeder's arithmetic, scaled down together and
\* keeping their ratios: u32 has AddrBits bits, usize (64-bit targets) twice
\* as many, u128 four times as many.
AddrBits == 2

U32_BITS == AddrBits
USIZE_BITS == 2 * AddrBits
U128_BITS == 4 * AddrBits

\* An IpAddr: its family and the integer its octets spell (big-endian).
V4(n) == [fam |-> "V4", num |-> n]
V6(n) == [fam |-> "V6", num |-> n]

\* The width of u32::from_be_bytes / u128::from_be_bytes of the octets.
Bits(fam) == IF fam = "V4" THEN U32_BITS ELSE U128_BITS

\* The greatest address of a family.
MaxNum(fam) == 2 ^ Bits(fam) - 1

NoFeeder == [current |-> V4(0), end |-> V4(0), finished |-> TRUE]

\* A constructor that also rejects a range of one address.
RangeFeederNewStrict(start, end) ==
    IF start.fam = end.fam /\ start.num < end.num
    THEN [ok |-> TRUE,
          feeder |-> [current |-> start, end |-> end, finished |-> FALSE]]
    ELSE [ok |-> FALSE, feeder |-> NoFeeder]

\* RangeFeeder::new: Ok(feeder) or Err(InvalidRange).
RangeFeederNew(start, end) ==
    IF start.fam = end.fam
    THEN IF start.num > end.num
         THEN [ok |-> FALSE, feeder |-> NoFeeder]
         ELSE [ok |-> TRUE,
               feeder |-> [current |-> start, end |-> end, finished |-> FALSE]]
    ELSE [ok |-> FALSE, feeder |-> NoFeeder]

\* num + 1 in the family's width. The addition is reached only when
\* current # end, so below the greatest address.
Succ(a) == [a EXCEPT !.num = (@ + 1) % (2 ^ Bits(a.fam))]

\* A feeder that steps before it compares with the end.
NextAddressStepFirst(f) ==
    IF f.finished THEN [out |-> None, feeder |-> f]
    ELSE [out |-> Some(f.current),
          feeder |-> IF Succ(f.current) = f.end
                     THEN [f EXCEPT !.finished = TRUE, !.current = Succ(@)]
                     ELSE [f EXCEPT !.current = Succ(@)]]

\* RangeFeeder::next_address: the value returned and the feeder afterwards.
NextAddress(f) ==
    IF f.finished THEN [out |-> None, feeder |-> f]
    ELSE [out |-> Some(f.current),
          feeder |-> IF f.current = f.end THEN [f EXCEPT !.finished = TRUE]
                     ELSE [f EXCEPT !.current = Succ(@)]]

\* RangeFeeder::total_addresses. `end_num - start_num + 1` is computed in the
\* family's width: when it overflows, a build with overflow checks panics
\* and one without wraps. `as usize` keeps the low bits; `.min(usize::MAX)`
\* changes nothing.
TotalAddresses(f, overflow_checks) ==
    IF f.current.fam # f.end.fam THEN [panicked |-> FALSE, v |-> 0]
    ELSE LET w == 2 ^ Bits(f.current.fam)
             diff == f.end.num - f.current.num
             sum == diff + 1
         IN IF (diff < 0 \/ sum >= w) /\ overflow_checks
            THEN [panicked |-> TRUE, v |-> 0]
            ELSE LET as_usize == ((sum % w) % (2 ^ USIZE_BITS))
                 IN [panicked |-> FALSE,
                     v |-> IF as_usize <= 2 ^ USIZE_BITS - 1 THEN as_usize
                           ELSE 2 ^ USIZE_BITS - 1]

\* ---------------------------------------------------------------- inputs

\* The addresses a scan can be asked for: the first MaxHosts IPv4 addresses
\* above 0 and one IPv6 address.
Hosts == {V4(n) : n \in 1..MaxHosts} \cup {V6(1)}

\* `address` before the loop binds it.
NoAddress == V4(0)

\* Round trips a ping attempt can measure, in milliseconds; 0: no reply.
RttChoices == {0, 1, 2}

\* ScannerConfig
Configs ==
    [max_threads : {0, 1, 2},
     scan_dead_hosts : BOOLEAN,
     port_string : PortStrings,
     ping_count : {2},
     port_timeout_ms : {5},
     min_port_timeout_ms : {4},
     adapt_port_timeout : BOOLEAN]

\* ----------------------------------------------------------------- state

VARIABLES
    config,        \* Scanner.config
    registry,      \* Scanner.fetcher_registry
    feeder,        \* the feeder handed to scan
    fed,           \* the addresses next_address has returned, in order
    pc,            \* where Scanner::scan is
    address,       \* scan's local `address`
    permits,       \* free permits of the semaphore
    held,          \* scan holds a permit it has not yet moved into a task
    tasks,         \* the JoinSet: one spawned pipeline per address
    results,       \* scan's local `results`, as a bag (the Vec up to order)
    failures,      \* "Task failed" errors logged by scan
    args,          \* the start and end addresses asked for
    scan_state,    \* IpScanApp.scan_state
    total,         \* start_scan's local `total`
    scanned,       \* start_scan's shared counter `scanned`
    stopped,       \* stop_scan has been called since the scan started
    current_scanned, \* each pipeline's local `current_scanned`
    old,           \* what still runs of the scan before the last Start
    scans_left,    \* how many more times Start is clicked
    rf_in,         \* a feeder's use: the start and end given to new
    rf,            \* the Result of RangeFeeder::new, once called
    rf_total,      \* total_addresses() of the fresh feeder, once called
    rf_later,      \* total_addresses() called last after some next_address
    rf_yielded,    \* the addresses next_address has returned, in order
    rf_nones,      \* how many times next_address has returned None
    ps_in,         \* a port specification's use: the text given to new
    ps,            \* the Result of PortIterator::new, once called
    ps_peak,       \* the length `ports` had when new's loop was left
    ps_open,       \* the ports handed to format_ports
    ps_text,       \* format_ports of the parsed ports, once called
    ps_again,      \* PortIterator::new of that text, once called
    rg_op,         \* a registry's use: the last method called on it
    rg_covered,    \* how many fetchers it held when the defaults were added
    sj,            \* a subject's use: the ScanningSubject
    sj_op,         \* the last method called on it
    probe          \* a fetcher chain's use: one host's pipeline, await by await

scanVars == <<config, registry, feeder, fed, pc, address, permits, held, tasks,
              results, failures>>

feederVars == <<rf_in, rf, rf_total, rf_later, rf_yielded, rf_nones>>

portVars == <<ps_in, ps, ps_peak, ps_open, ps_text, ps_again>>

guiVars == <<scan_state, total, scanned, stopped, current_scanned, old, scans_left>>

unitVars == <<rg_op, rg_covered, sj, sj_op, probe>>

\* What neither Scanner::scan nor a registry, subject or chain on its own
\* touches.
notScanUnits == <<args, guiVars, feederVars, portVars>>

\* What Scanner::scan does not touch.
notScan == <<args, guiVars, feederVars, portVars, unitVars>>

vars == <<scanVars, args, guiVars, feederVars, portVars, unitVars>>

\* ScanState::Idle, ScanState::Scanning { current, total, .. } and
\* ScanState::Completed { .. }
Idle == [tag |-> "Idle", current |-> 0, total |-> 0]
Scanning(current, of) == [tag |-> "Scanning", current |-> current, total |-> of]
Completed == [tag |-> "Completed", current |-> 0, total |-> 0]

\* timeout_ms: the timeout the pipeline's port probe passed to its connects.
NoTask == [st |-> "none", idx |-> 0, subject |-> SubjectNew,
           result |-> ResultNew(NoAddress), timeout_ms |-> None, permit |-> FALSE]

\* No pipeline has read the counter.
NotCounted == [h \in Hosts |-> 0]

\* No earlier scan: its dispatcher's position, its pipelines, its counter,
\* what its pipelines read from the counter, and its total.
NoOld == [pc |-> "none", tasks |-> [h \in Hosts |-> NoTask], scanned |-> 0,
          current_scanned |-> NotCounted, total |-> 0]

\* No window: the scan is run from the command line.
GuiUnused ==
    /\ scan_state = Idle
    /\ total = 0
    /\ scanned = 0
    /\ stopped = FALSE
    /\ current_scanned = NotCounted
    /\ old = NoOld
    /\ scans_left = 0

\* No feeder is exercised on its own.
FeederUnused ==
    /\ rf_in = [start |-> NoAddress, end |-> NoAddress, overflow_checks |-> FALSE]
    /\ rf = [st |-> "uncalled", feeder |-> NoFeeder]
    /\ rf_total = [st |-> "uncalled", v |-> 0]
    /\ rf_later = [st |-> "uncalled", v |-> 0]
    /\ rf_yielded = <<>>
    /\ rf_nones = 0

\* format_ports not yet called.
NoText == [some |-> FALSE, v |-> <<>>]

\* No port specification is exercised on its own.
PortsUnused ==
    /\ ps_in = [text |-> <<>>, overflow_checks |-> FALSE]
    /\ ps = [st |-> "uncalled", ports |-> <<>>]
    /\ ps_peak = 0
    /\ ps_open = <<>>
    /\ ps_text = NoText
    /\ ps_again = [st |-> "uncalled", ports |-> <<>>]

\* No registry is exercised on its own.
RegistryUnused ==
    /\ rg_op = "none"
    /\ rg_covered = 0

\* No subject is exercised on its own.
SubjectUnused ==
    /\ sj = SubjectNew
    /\ sj_op = "none"

\* One pipeline seen await by await. idx: how many fetchers have returned;
\* at: the await the running fetcher is suspended at ("call": none, the loop
\* is about to call the next fetcher); attempts: the blocking attempts the
\* fetcher called last has made, in order; todo: the ports its iterator has
\* yet to yield; timeout_ms: the timeout given to each connect; last: the
\* fetcher that returned last and whether it returned Ok.
NoProbe == [st |-> "unused", idx |-> 0, at |-> "call", subject |-> SubjectNew,
            result |-> ResultNew(NoAddress), attempts |-> <<>>, todo |-> <<>>,
            timeout_ms |-> None, last |-> [id |-> "none", ok |-> FALSE]]

\* No fetcher chain is exercised on its own.
ProbeUnused == probe = NoProbe

UnitsUnused ==
    /\ RegistryUnused
    /\ SubjectUnused
    /\ ProbeUnused

Init ==
    /\ config \in Configs
    /\ registry = RegisterDefaultFetchers(RegistryNew)
    /\ args \in [start : Hosts, end : Hosts]
    /\ RangeFeederNew(args.start, args.end).ok
    /\ feeder = RangeFeederNew(args.start, args.end).feeder
    /\ fed = <<>>
    /\ pc = "idle"
    /\ address = NoAddress
    /\ permits = 0
    /\ held = FALSE
    /\ tasks = [h \in Hosts |-> NoTask]
    /\ results = EmptyBag
    /\ failures = 0
    /\ GuiUnused
    /\ FeederUnused
    /\ PortsUnused
    /\ UnitsUnused

\* --------------------------------------------------------- Scanner::scan

\* Semaphore::new(max_threads) and the empty results and JoinSet.
ScanStart ==
    /\ pc = "idle"
    /\ permits' = config.max_threads
    /\ pc' = "next"
    /\ UNCHANGED <<notScan, config, registry, feeder, fed, address, held, tasks,
                   results, failures>>

\* while let Some(address) = feeder.next_address().await
FeederNext ==
    /\ pc = "next"
    /\ LET r == NextAddress(feeder)
       IN /\ feeder' = r.feeder
          /\ IF r.out.some
             THEN /\ address' = r.out.v
                  /\ fed' = Append(fed, r.out.v)
                  /\ pc' = "acquire"
             ELSE /\ pc' = "join"
                  /\ UNCHANGED <<address, fed>>
    /\ UNCHANGED <<notScan, config, registry, permits, held, tasks,
                   results, failures>>

\* A semaphore that hands out a permit whether or not one is free.
CanAcquireAlways(p) == TRUE

\* acquire_owned() completes only when a permit is free.
CanAcquire(p) == p > 0

Acquire ==
    /\ pc = "acquire"
    /\ CanAcquire(permits)
    /\ permits' = permits - 1
    /\ held' = TRUE
    /\ pc' = "spawn"
    /\ UNCHANGED <<notScan, config, registry, feeder, fed, address, tasks,
                   results, failures>>

\* tasks.spawn(async move { let _permit = permit; ... }): the pipeline
\* starts with a fresh subject and result.
Spawn ==
    /\ pc = "spawn"
    /\ tasks' = [tasks EXCEPT ![address] =
                     [st |-> "running", idx |-> 0, subject |-> SubjectNew,
                      result |-> ResultNew(address), timeout_ms |-> None,
                      permit |-> TRUE]]
    /\ held' = FALSE
    /\ pc' = "next"
    /\ UNCHANGED <<notScan, config, registry, feeder, fed, address, permits,
                   results, failures>>

\* What the network answers to one invocation of a fetcher for an address.
\* Ping replies and port connects vary from one invocation to the next; the
\* resolver's and the neighbour table's answers are facts about the address:
\* V4(1) has a name and no neighbour entry, V4(2) has a neighbour
\* entry and no name, and for any other address the blocking lookup of the
\* name is lost (a JoinError).
Envs(id, cfg, addr) ==
    IF id = "ping"
    THEN {[ok |-> FALSE, attempts |-> <<>>, answer |-> FALSE, open |-> {}]}
         \cup {[ok |-> TRUE, attempts |-> a, answer |-> FALSE, open |-> {}] :
                  a \in [1..cfg.ping_count -> RttChoices]}
    ELSE IF id = "ports"
    THEN LET it == PortIteratorOf[cfg.port_string]
         IN {[ok |-> TRUE, attempts |-> <<>>, answer |-> FALSE, open |-> o] :
                o \in SUBSET {it.ports[i] : i \in 1..Len(it.ports)}}
    ELSE IF id = "hostname"
    THEN {[ok |-> addr \in {V4(1), V4(2)}, attempts |-> <<>>,
           answer |-> addr = V4(1), open |-> {}]}
    ELSE {[ok |-> TRUE, attempts |-> <<>>, answer |-> addr = V4(2),
           open |-> {}]}

\* fetcher.scan(&mut subject) by dynamic dispatch on the fetcher.
FetcherScan(id, subject, cfg, env) ==
    CASE id = "ping" -> PingScan(subject, cfg, env.ok, env.attempts)
      [] id = "hostname" -> HostnameScan(subject, env.ok, env.answer)
      [] id = "ports" -> PortsScan(subject, cfg, env.open)
      [] id = "mac" -> MacScan(subject, env.ok, env.answer)

\* match fetcher.scan(..) { Ok(value) => add_value, Err(e) => debug!(..) }
Recorded(result, id, r) == IF r.ok THEN AddValue(result, id, r.value) ELSE result

\* A loop without the abort check.
BreakNever(subject, cfg) == FALSE

\* A break that does not look at the host's own flag.
BreakWithoutFlag(subject, cfg) == ~cfg.scan_dead_hosts

\* if subject.is_aborted() && !config.scan_dead_hosts { break; }
Break(subject, cfg) == subject.aborted /\ ~cfg.scan_dead_hosts

\* A permit that is not given back.
PermitKept(p) == p

\* The permit dropped with the pipeline's locals when it returns.
ReleasedOnReturn(p) == p + 1

\* A permit forgotten (mem::forget) rather than dropped on unwinding.
PermitLeaked(p) == p

\* The permit dropped with the pipeline's locals when it panics.
ReleasedOnPanic(p) == p + 1

\* The pipeline's return: result.set_type(subject.result_type()); result.
\* Its locals (subject, permit) are dropped.
Returned(t) ==
    [t EXCEPT !.st = "finished",
              !.result.result_type = t.subject.result_type,
              !.subject = SubjectNew,
              !.permit = FALSE]

\* One iteration of the pipeline's loop over the selected fetchers, the
\* network answering env; after the last one, or the break, the return.
\* With nothing selected the loop is empty and the pipeline returns at once.
AfterStep(t, addr, cfg, fs, env) ==
    IF t.idx >= Len(fs) THEN Returned(t)
    ELSE LET id == fs[t.idx + 1]
             r == FetcherScan(id, t.subject, cfg, env)
             ran == [t EXCEPT !.idx = t.idx + 1,
                              !.subject = r.subject,
                              !.result = Recorded(t.result, id, r),
                              !.timeout_ms = IF id = "ports"
                                             THEN PortsTimeout(t.subject, cfg)
                                             ELSE @]
         IN IF Break(r.subject, cfg) \/ t.idx + 1 = Len(fs)
            THEN Returned(ran) ELSE ran

NoEnv == [ok |-> TRUE, attempts |-> <<>>, answer |-> FALSE, open |-> {}]

StepEnvs(t, addr, cfg, fs) ==
    IF t.idx >= Len(fs) THEN {NoEnv} ELSE Envs(fs[t.idx + 1], cfg, addr)

\* A pipeline runs up to its next await, or to its end, where its permit is
\* dropped.
TaskStep(h) ==
    /\ tasks[h].st = "running"
    /\ \E env \in StepEnvs(tasks[h], h, config, GetSelectedFetchers(registry)) :
          /\ tasks' = [tasks EXCEPT ![h] =
                          AfterStep(tasks[h], h, config,
                                    GetSelectedFetchers(registry), env)]
          /\ permits' = IF tasks'[h].st = "finished"
                        THEN ReleasedOnReturn(permits) ELSE permits
    /\ UNCHANGED <<notScan, config, registry, feeder, fed, pc, address, held,
                   results, failures>>

\* An unexpected fault inside a fetcher: the pipeline unwinds, its locals
\* (subject, result, permit) are dropped and its JoinHandle yields Err.
TaskPanic(h) ==
    LET t == tasks[h]
    IN /\ t.st = "running"
       /\ t.idx < Len(GetSelectedFetchers(registry))
       /\ tasks' = [tasks EXCEPT ![h] = [NoTask EXCEPT !.st = "panicked"]]
       /\ permits' = ReleasedOnPanic(permits)
       /\ UNCHANGED <<notScan, config, registry, feeder, fed, pc, address, held,
                      results, failures>>

\* An aggregate that leaves Dead hosts out.
PushedUnlessDead(res, t) ==
    IF t.st = "finished" /\ t.result.result_type # "Dead"
    THEN res (+) SetToBag({t.result}) ELSE res

\* A join loop that gives up on the first JoinError (`result?`).
AfterJoinPropagating(t) == IF t.st = "panicked" THEN "failed" ELSE "join"

\* Where scan goes after one JoinHandle output: both arms stay in the loop.
AfterJoin(t) == "join"

\* What scan does with one JoinHandle output: push Ok, log Err.
Pushed(res, t) ==
    IF t.st = "finished" THEN res (+) SetToBag({t.result}) ELSE res

\* while let Some(result) = tasks.join_next().await { ... }
JoinNext(h) ==
    LET t == tasks[h]
    IN /\ pc = "join"
       /\ t.st \in {"finished", "panicked"}
       /\ results' = Pushed(results, t)
       /\ failures' = IF t.st = "panicked" THEN failures + 1 ELSE failures
       /\ tasks' = [tasks EXCEPT ![h] =
                   [NoTask EXCEPT !.st = IF t.st = "panicked" THEN "faulted"
                                         ELSE "joined"]]
       /\ pc' = AfterJoin(t)
       /\ UNCHANGED <<notScan, config, registry, feeder, fed, address, permits, held>>

\* A return that does not wait for the JoinSet.
JoinSetIgnored == TRUE

\* join_next() yields None once the JoinSet is empty. A joined task has
\* left the set; "faulted" marks one whose output was a JoinError.
JoinSetEmpty == \A h \in Hosts : tasks[h].st \in {"none", "joined", "faulted"}

\* Ok(results)
ScanReturn ==
    /\ pc = "join"
    /\ JoinSetEmpty
    /\ pc' = "done"
    /\ UNCHANGED <<notScan, config, registry, feeder, fed, address, permits, held,
                   tasks, results, failures>>

Next ==
    \/ ScanStart
    \/ FeederNext
    \/ Acquire
    \/ Spawn
    \/ \E h \in Hosts : TaskStep(h)
    \/ \E h \in Hosts : TaskPanic(h)
    \/ \E h \in Hosts : JoinNext(h)
    \/ ScanReturn

Spec == Init /\ [][Next]_vars

\* The steps of the program itself: everything but a fault.
Progress ==
    \/ ScanStart
    \/ FeederNext
    \/ Acquire
    \/ Spawn
    \/ \E h \in Hosts : TaskStep(h)
    \/ \E h \in Hosts : JoinNext(h)
    \/ ScanReturn

\* The scans whose termination is checked: every range and max_threads,
\* with and without scan_dead_hosts, under one valid port specification and
\* the configured port timeout.
InitLive ==
    /\ Init
    /\ config.port_string = <<"8", "0">>
    /\ ~config.adapt_port_timeout

\* The runtime never idles while scan or a pipeline can take a step, and
\* every probe invocation returns; a fault is never owed.
FairSpec == InitLive /\ [][Next]_vars /\ WF_vars(Progress)

\* ------------------------------------------------------------- main

\* Where main goes after RangeFeeder::new when its error is dropped.
AfterNewIgnoringErr(r) == "idle"

\* let feeder = Box::new(RangeFeeder::new(start, end)?): an Err leaves main.
AfterNew(r) == IF r.ok THEN "idle" ELSE "failed"

\* main.rs, up to scanner.scan(feeder)
MainNew ==
    /\ pc = "main"
    /\ LET r == RangeFeederNew(args.start, args.end)
       IN /\ feeder' = r.feeder
          /\ pc' = AfterNew(r)
    /\ UNCHANGED <<notScan, config, registry, fed, address, permits, held,
                   tasks, results, failures>>

\* main before the feeder is built: any two addresses, of one family or not,
\* in order or not.
MainInit ==
    /\ config \in Configs
    /\ registry = RegisterDefaultFetchers(RegistryNew)
    /\ args \in [start : Hosts, end : Hosts]
    /\ feeder = NoFeeder
    /\ fed = <<>>
    /\ pc = "main"
    /\ address = NoAddress
    /\ permits = 0
    /\ held = FALSE
    /\ tasks = [h \in Hosts |-> NoTask]
    /\ results = EmptyBag
    /\ failures = 0
    /\ GuiUnused
    /\ FeederUnused
    /\ PortsUnused
    /\ UnitsUnused

MainStep == MainNew \/ Next

MainSpec == MainInit /\ [][MainStep]_vars

\* -------------------------------------------------- the window (gui.rs)
\* IpScanApp::start_scan runs its own copy of the dispatch loop: gui.rs
\* 408-417 repeat scanner.rs 36-41 and gui.rs 420-434 repeat scanner.rs
\* 44-62, so FeederNext, Acquire, Spawn, AfterStep and TaskPanic serve here
\* too. What differs is what a pipeline does when it ends and what the join
\* loop does.

\* result.get_value(key).unwrap_or(&"[n/a]".to_string())
ValueOrNA(result, key) ==
    IF key \in DOMAIN result.values THEN result.values[key] ELSE NA

\* The row built from a ScanningResult (gui.rs 459-478).
GuiResult(result) ==
    [address |-> result.address,
     hostname |-> ValueOrNA(result, "hostname"),
     ping |-> ValueOrNA(result, "ping"),
     ports |-> ValueOrNA(result, "ports"),
     mac |-> ValueOrNA(result, "mac"),
     status |-> result.result_type]

\* A pipeline that shows a host only when it is plainly Alive.
GuiPushedIfAlive(res, result, cfg) ==
    IF result.result_type = "Alive"
    THEN res (+) SetToBag({GuiResult(result)}) ELSE res

\* if result.result_type() != Dead || config.scan_dead_hosts { push }
GuiPushed(res, result, cfg) ==
    IF result.result_type # "Dead" \/ cfg.scan_dead_hosts
    THEN res (+) SetToBag({GuiResult(result)}) ELSE res

\* The settings varied in the window: threads and scan_dead.
GuiConfigs == {c \in Configs : c.port_string = <<"8", "0">>
                               /\ ~c.adapt_port_timeout}

\* How often Start is clicked in a window.
MaxScans == 2

\* The window before Start is clicked.
GuiWindow ==
    /\ config \in GuiConfigs
    /\ registry = RegistryNew
    /\ args \in [start : Hosts, end : Hosts]
    /\ feeder = NoFeeder
    /\ fed = <<>>
    /\ pc = "gui"
    /\ address = NoAddress
    /\ permits = 0
    /\ held = FALSE
    /\ tasks = [h \in Hosts |-> NoTask]
    /\ results = EmptyBag
    /\ failures = 0
    /\ scan_state = Idle
    /\ total = 0
    /\ scanned = 0
    /\ stopped = FALSE
    /\ current_scanned = NotCounted
    /\ old = NoOld
    /\ FeederUnused
    /\ PortsUnused
    /\ UnitsUnused

\* A window in which one scan is started.
GuiInit == GuiWindow /\ scans_left = 1

\* What goes on of the running scan when Start is clicked again: the
\* pipelines in flight, with the counter and the total they share, and the
\* dispatcher in its join loop.
Remainder ==
    IF pc = "join"
    THEN [pc |-> "join", tasks |-> tasks, scanned |-> scanned,
          current_scanned |-> current_scanned, total |-> total]
    ELSE [NoOld EXCEPT !.pc = IF pc = "gui" THEN "none" ELSE "done"]

\* start_scan up to runtime.spawn; the Start button shows only when the
\* state is not Scanning. The list of results is shared by every scan of
\* the window and is cleared here. The earlier scan is not told: its
\* spawned task goes on in the runtime. The window is followed from a
\* Start that comes when the earlier dispatcher has left its dispatch loop
\* and nothing older than it is left.
StartScan ==
    /\ pc \in {"gui", "join", "done", "failed"}
    /\ scan_state.tag # "Scanning"
    /\ scans_left > 0
    /\ old.pc \in {"none", "done"}
    /\ scans_left' = scans_left - 1
    /\ old' = Remainder
    /\ results' = EmptyBag
    /\ scan_state' = Scanning(0, 0)
    /\ stopped' = FALSE
    /\ pc' = "new"
    /\ feeder' = NoFeeder
    /\ fed' = <<>>
    /\ address' = NoAddress
    /\ permits' = 0
    /\ held' = FALSE
    /\ tasks' = [h \in Hosts |-> NoTask]
    /\ failures' = 0
    /\ total' = 0
    /\ scanned' = 0
    /\ current_scanned' = NotCounted
    /\ UNCHANGED <<config, registry, args, feederVars, portVars, unitVars>>

\* The spawned scan up to its loop: the registry, RangeFeeder::new, and in
\* the Ok arm total_addresses (no range of Hosts overflows it), the state
\* with the total, the counter and the semaphore.
GuiNewOk ==
    /\ pc = "new"
    /\ RangeFeederNew(args.start, args.end).ok
    /\ registry' = RegisterDefaultFetchers(RegistryNew)
    /\ feeder' = RangeFeederNew(args.start, args.end).feeder
    /\ total' = TotalAddresses(feeder', FALSE).v
    /\ scan_state' = Scanning(0, total')
    /\ scanned' = 0
    /\ permits' = config.max_threads
    /\ pc' = "next"
    /\ UNCHANGED <<config, fed, address, held, tasks, results, failures,
                   args, stopped, current_scanned, old, scans_left,
                   feederVars, portVars, unitVars>>

\* The Err arm: Idle and "Invalid IP range".
GuiNewErr ==
    /\ pc = "new"
    /\ ~RangeFeederNew(args.start, args.end).ok
    /\ registry' = RegisterDefaultFetchers(RegistryNew)
    /\ scan_state' = Idle
    /\ pc' = "failed"
    /\ UNCHANGED <<config, feeder, fed, address, permits, held, tasks,
                   results, failures, args, total, scanned, stopped,
                   current_scanned, old, scans_left,
                   feederVars, portVars, unitVars>>

\* A pipeline of the window after its loop over the fetchers: the type of
\* its result is set (gui.rs 434), it holds its permit to its end, and it is
\* about to lock the counter.
Counting(t) ==
    IF t.st = "finished" THEN [t EXCEPT !.st = "counting", !.permit = TRUE]
    ELSE t

\* A pipeline of the window runs up to its next await, or to the end of its
\* loop over the fetchers.
GuiTaskStep(h) ==
    /\ tasks[h].st = "running"
    /\ \E env \in StepEnvs(tasks[h], h, config, GetSelectedFetchers(registry)) :
          tasks' = [tasks EXCEPT ![h] =
                       Counting(AfterStep(tasks[h], h, config,
                                          GetSelectedFetchers(registry), env))]
    /\ UNCHANGED <<config, registry, feeder, fed, pc, address, permits, held,
                   results, failures, notScan>>

\* let current_scanned = { let mut sc = scanned.lock(); *sc += 1; *sc };
GuiCount(h) ==
    /\ tasks[h].st = "counting"
    /\ scanned' = scanned + 1
    /\ current_scanned' = [current_scanned EXCEPT ![h] = scanned + 1]
    /\ tasks' = [tasks EXCEPT ![h].st = "publishing"]
    /\ UNCHANGED <<config, registry, feeder, fed, pc, address, permits, held,
                   results, failures, args, scan_state, total, stopped, old,
                   scans_left, feederVars, portVars, unitVars>>

\* *scan_state.lock() = Scanning { current: current_scanned, total }, in a
\* critical section of its own. The local is not read again.
GuiPublish(h) ==
    /\ tasks[h].st = "publishing"
    /\ scan_state' = Scanning(current_scanned[h], total)
    /\ current_scanned' = [current_scanned EXCEPT ![h] = 0]
    /\ tasks' = [tasks EXCEPT ![h].st = "pushing"]
    /\ UNCHANGED <<config, registry, feeder, fed, pc, address, permits, held,
                   results, failures, args, total, scanned, stopped,
                   old, scans_left, feederVars, portVars, unitVars>>

\* The row is pushed, or not, and the pipeline ends: its permit is dropped.
GuiPush(h) ==
    /\ tasks[h].st = "pushing"
    /\ results' = GuiPushed(results, tasks[h].result, config)
    /\ permits' = ReleasedOnReturn(permits)
    /\ tasks' = [tasks EXCEPT ![h].st = "finished", ![h].permit = FALSE]
    /\ UNCHANGED <<config, registry, feeder, fed, pc, address, held,
                   failures, notScan>>

\* while tasks.join_next().await.is_some() {}
GuiJoinNext(h) ==
    /\ pc = "join"
    /\ tasks[h].st \in {"finished", "panicked"}
    /\ tasks' = [tasks EXCEPT ![h].st = IF @ = "panicked" THEN "faulted"
                                        ELSE "joined"]
    /\ UNCHANGED <<config, registry, feeder, fed, pc, address, permits, held,
                   results, failures, notScan>>

\* After the join loop: ScanState::Completed.
GuiComplete ==
    /\ pc = "join"
    /\ JoinSetEmpty
    /\ scan_state' = Completed
    /\ pc' = "done"
    /\ UNCHANGED <<config, registry, feeder, fed, address, permits, held,
                   tasks, results, failures, args, total, scanned, stopped,
                   current_scanned, old, scans_left,
                   feederVars, portVars, unitVars>>

\* stop_scan; the Stop button shows only when the state is Scanning.
StopScan ==
    /\ scan_state.tag = "Scanning"
    /\ scan_state' = Idle
    /\ stopped' = TRUE
    /\ UNCHANGED <<scanVars, args, total, scanned, current_scanned, old,
                   scans_left, feederVars, portVars, unitVars>>

GuiStep ==
    \/ StartScan
    \/ GuiNewOk
    \/ GuiNewErr
    \/ FeederNext
    \/ Acquire
    \/ Spawn
    \/ \E h \in Hosts : GuiTaskStep(h)
    \/ \E h \in Hosts : GuiCount(h)
    \/ \E h \in Hosts : GuiPublish(h)
    \/ \E h \in Hosts : GuiPush(h)
    \/ \E h \in Hosts : TaskPanic(h)
    \/ \E h \in Hosts : GuiJoinNext(h)
    \/ GuiComplete
    \/ StopScan

GuiSpec == GuiInit /\ [][GuiStep]_vars

\* ------------------------------------------- a window with a second Start

\* A window in which Start is clicked up to MaxScans times, for the range
\* of the first host alone, with two threads and dead hosts shown.
RestartInit ==
    /\ GuiWindow
    /\ scans_left = MaxScans
    /\ config.max_threads = 2
    /\ config.scan_dead_hosts
    /\ args = [start |-> V4(1), end |-> V4(1)]

\* A pipeline of the earlier scan runs up to its next await, or to the end
\* of its loop over the fetchers.
OldTaskStep(h) ==
    /\ old.tasks[h].st = "running"
    /\ \E env \in StepEnvs(old.tasks[h], h, config,
                           GetSelectedFetchers(registry)) :
          old' = [old EXCEPT !.tasks[h] =
                     Counting(AfterStep(old.tasks[h], h, config,
                                        GetSelectedFetchers(registry), env))]
    /\ UNCHANGED <<scanVars, args, scan_state, total, scanned, stopped,
                   current_scanned, scans_left, feederVars, portVars,
                   unitVars>>

\* It counts itself in the counter of its own scan.
OldCount(h) ==
    /\ old.tasks[h].st = "counting"
    /\ old' = [old EXCEPT !.scanned = @ + 1,
                          !.current_scanned[h] = old.scanned + 1,
                          !.tasks[h].st = "publishing"]
    /\ UNCHANGED <<scanVars, args, scan_state, total, scanned, stopped,
                   current_scanned, scans_left, feederVars, portVars,
                   unitVars>>

\* It writes its count and the total of its own scan into the state, which
\* the window shares among its scans.
OldPublish(h) ==
    /\ old.tasks[h].st = "publishing"
    /\ scan_state' = Scanning(old.current_scanned[h], old.total)
    /\ old' = [old EXCEPT !.tasks[h].st = "pushing",
                          !.current_scanned[h] = 0]
    /\ UNCHANGED <<scanVars, args, total, scanned, stopped, current_scanned,
                   scans_left, feederVars, portVars, unitVars>>

\* It pushes its row, or not, into the results, which the window shares
\* among its scans, and ends.
OldPush(h) ==
    /\ old.tasks[h].st = "pushing"
    /\ results' = GuiPushed(results, old.tasks[h].result, config)
    /\ old' = [old EXCEPT !.tasks[h].st = "finished",
                          !.tasks[h].permit = FALSE]
    /\ UNCHANGED <<config, registry, feeder, fed, pc, address, permits, held,
                   tasks, failures, args, scan_state, total, scanned,
                   stopped, current_scanned, scans_left, feederVars,
                   portVars, unitVars>>

\* The pipelines of the earlier scan that have ended or unwound.
OldJoinSetEmpty ==
    \A h \in Hosts :
        old.tasks[h].st \in {"none", "finished", "joined", "panicked", "faulted"}

\* The earlier scan's join loop has collected its last pipeline: it writes
\* ScanState::Completed, and nothing of that scan is left.
OldComplete ==
    /\ old.pc = "join"
    /\ OldJoinSetEmpty
    /\ scan_state' = Completed
    /\ old' = [NoOld EXCEPT !.pc = "done"]
    /\ UNCHANGED <<scanVars, args, total, scanned, stopped, current_scanned,
                   scans_left, feederVars, portVars, unitVars>>

\* The range is valid, so the Err arm is never taken, and the fetchers are
\* followed where they return.
RestartStep ==
    \/ StartScan
    \/ GuiNewOk
    \/ FeederNext
    \/ Acquire
    \/ Spawn
    \/ \E h \in Hosts : GuiTaskStep(h)
    \/ \E h \in Hosts : GuiCount(h)
    \/ \E h \in Hosts : GuiPublish(h)
    \/ \E h \in Hosts : GuiPush(h)
    \/ \E h \in Hosts : GuiJoinNext(h)
    \/ GuiComplete
    \/ StopScan
    \/ \E h \in Hosts : OldTaskStep(h)
    \/ \E h \in Hosts : OldCount(h)
    \/ \E h \in Hosts : OldPublish(h)
    \/ \E h \in Hosts : OldPush(h)
    \/ OldComplete

RestartSpec == RestartInit /\ [][RestartStep]_vars

\* ------------------------------------------------- a feeder on its own

\* How many times next_address is called on one feeder.
MaxCalls == 6

\* The IPv6 addresses tried: the bottom of the space, either side of
\* usize::MAX, and the top of the space.
V6Nums == {0, 1, 2, 2 ^ USIZE_BITS - 2, 2 ^ USIZE_BITS - 1, 2 ^ USIZE_BITS,
           MaxNum("V6") - 2, MaxNum("V6") - 1, MaxNum("V6")}

\* The addresses a feeder is built from: every IPv4 address and the IPv6
\* addresses above.
FeederAddrs == {V4(n) : n \in 0..MaxNum("V4")} \cup {V6(n) : n \in V6Nums}

\* No scan is run.
ScanUnused ==
    /\ args = [start |-> NoAddress, end |-> NoAddress]
    /\ config = [max_threads |-> 0, scan_dead_hosts |-> FALSE,
                 port_string |-> <<"8", "0">>, ping_count |-> 2,
                 port_timeout_ms |-> 5, min_port_timeout_ms |-> 4,
                 adapt_port_timeout |-> FALSE]
    /\ registry = RegistryNew
    /\ feeder = NoFeeder
    /\ fed = <<>>
    /\ pc = "idle"
    /\ address = NoAddress
    /\ permits = 0
    /\ held = FALSE
    /\ tasks = [h \in Hosts |-> NoTask]
    /\ results = EmptyBag
    /\ failures = 0

FeederInit ==
    /\ ScanUnused
    /\ GuiUnused
    /\ PortsUnused
    /\ UnitsUnused
    /\ rf_in \in [start : FeederAddrs, end : FeederAddrs,
                  overflow_checks : BOOLEAN]
    /\ rf = [st |-> "uncalled", feeder |-> NoFeeder]
    /\ rf_total = [st |-> "uncalled", v |-> 0]
    /\ rf_later = [st |-> "uncalled", v |-> 0]
    /\ rf_yielded = <<>>
    /\ rf_nones = 0

\* RangeFeeder::new(start, end)
RfNew ==
    /\ rf.st = "uncalled"
    /\ LET r == RangeFeederNew(rf_in.start, rf_in.end)
       IN rf' = [st |-> IF r.ok THEN "ok" ELSE "err", feeder |-> r.feeder]
    /\ UNCHANGED <<scanVars, args, guiVars, portVars, unitVars, rf_in, rf_total,
                   rf_later, rf_yielded, rf_nones>>

\* feeder.total_addresses() on the fresh feeder; a panic ends the program.
RfTotal ==
    /\ rf.st = "ok"
    /\ rf_total.st = "uncalled"
    /\ rf_yielded = <<>>
    /\ rf_nones = 0
    /\ LET r == TotalAddresses(rf.feeder, rf_in.overflow_checks)
       IN rf_total' = [st |-> IF r.panicked THEN "panicked" ELSE "returned",
                       v |-> r.v]
    /\ UNCHANGED <<scanVars, args, guiVars, portVars, unitVars, rf_in, rf,
                   rf_later, rf_yielded, rf_nones>>

\* feeder.next_address().await
RfNext ==
    /\ rf.st = "ok"
    /\ rf_total.st # "panicked"
    /\ Len(rf_yielded) + rf_nones < MaxCalls
    /\ LET r == NextAddress(rf.feeder)
       IN /\ rf' = [rf EXCEPT !.feeder = r.feeder]
          /\ IF r.out.some
             THEN /\ rf_yielded' = Append(rf_yielded, r.out.v)
                  /\ UNCHANGED rf_nones
             ELSE /\ rf_nones' = rf_nones + 1
                  /\ UNCHANGED rf_yielded
    /\ UNCHANGED <<scanVars, args, guiVars, portVars, unitVars, rf_in, rf_total,
                   rf_later>>

\* feeder.total_addresses() once the traversal has begun.
RfTotalLater ==
    /\ rf.st = "ok"
    /\ rf_total.st = "returned"
    /\ Len(rf_yielded) + rf_nones > 0
    /\ LET r == TotalAddresses(rf.feeder, rf_in.overflow_checks)
       IN rf_later' = [st |-> IF r.panicked THEN "panicked" ELSE "returned",
                       v |-> r.v]
    /\ UNCHANGED <<scanVars, args, guiVars, portVars, unitVars, rf_in, rf,
                   rf_total, rf_yielded, rf_nones>>

FeederStep == RfNew \/ RfTotal \/ RfNext \/ RfTotalLater

FeederSpec == FeederInit /\ [][FeederStep]_vars

\* ------------------------------------- a port specification on its own

\* How many comma-separated tokens a tried specification has.
MaxTokens == 2

\* The tokens tried: ports, a port in whitespace, port 0, a range, an
\* inverted range, a range with inner whitespace, the greatest port and the
\* least number above it, a signed number, a word, a range with two dashes
\* and the empty token.
Tokens ==
    {<<"8", "0">>,
     <<"8", "1">>,
     <<" ", "8", "2", " ">>,
     <<"0">>,
     <<"8", "0", "-", "8", "2">>,
     <<"8", "2", "-", "8", "0">>,
     <<"7", "9", " ", "-", " ", "8", "0">>,
     <<"6", "5", "5", "3", "5">>,
     <<"6", "5", "5", "3", "6">>,
     <<"+", "8", "0">>,
     <<"x">>,
     <<"1", "-", "2", "-", "3">>,
     <<>>}

\* Specifications that name all of 0..65535.
WholeSpace ==
    {<<"0", "-", "6", "5", "5", "3", "5">>,
     <<"1", "-", "6", "5", "5", "3", "5", ",", "0">>,
     <<"0", ",", "1", "-", "6", "5", "5", "3", "5">>}

\* A specification whose second range repeats the first.
Repeated ==
    {<<"1", "-", "6", "5", "5", "3", "5", ",",
       "1", "-", "6", "5", "5", "3", "5">>}

TokenSeqs == UNION {[1..n -> Tokens] : n \in 1..MaxTokens}

PortTexts == {Join(ts, <<",">>) : ts \in TokenSeqs} \cup WholeSpace \cup Repeated

PortsInit ==
    /\ ScanUnused
    /\ GuiUnused
    /\ FeederUnused
    /\ UnitsUnused
    /\ ps_in \in [text : PortTexts, overflow_checks : BOOLEAN]
    /\ ps = [st |-> "uncalled", ports |-> <<>>]
    /\ ps_peak = 0
    /\ ps_open = <<>>
    /\ ps_text = NoText
    /\ ps_again = [st |-> "uncalled", ports |-> <<>>]

\* The Result of PortIterator::new as the caller sees it.
Outcome(r) ==
    [st |-> IF r.panicked THEN "panicked" ELSE IF r.ok THEN "ok" ELSE "err",
     ports |-> r.ports]

\* PortIterator::new(port_string)
PsNew ==
    /\ ps.st = "uncalled"
    /\ ps' = Outcome(PortIteratorNew(ps_in.text, ps_in.overflow_checks))
    /\ ps_peak' = Len(LoopLeftWith(Split(ps_in.text, ","), <<>>,
                                   ps_in.overflow_checks))
    /\ UNCHANGED <<scanVars, args, guiVars, feederVars, unitVars, ps_in, ps_open,
                   ps_text, ps_again>>

\* format_ports(&open_ports): open_ports holds, in the iterator's order, the
\* ports whose connect succeeded (PortsFetcher::scan), any of them.
PsFormat ==
    /\ ps.st = "ok"
    /\ ~ps_text.some
    /\ \E open \in SUBSET {ps.ports[i] : i \in 1..Len(ps.ports)} :
          /\ ps_open' = SelectSeq(ps.ports, LAMBDA p : p \in open)
          /\ ps_text' = [some |-> TRUE, v |-> format_ports(ps_open')]
    /\ UNCHANGED <<scanVars, args, guiVars, feederVars, unitVars, ps_in, ps,
                   ps_peak, ps_again>>

\* PortIterator::new of the text format_ports wrote.
PsAgain ==
    /\ ps_text.some
    /\ ps_again.st = "uncalled"
    /\ ps_again' = Outcome(PortIteratorNew(ps_text.v, ps_in.overflow_checks))
    /\ UNCHANGED <<scanVars, args, guiVars, feederVars, unitVars, ps_in, ps,
                   ps_peak, ps_open, ps_text>>

PortsStep == PsNew \/ PsFormat \/ PsAgain

PortsSpec == PortsInit /\ [][PortsStep]_vars

\* ------------------------------------------- one host's chain on its own
\* The pipeline of scanner.rs 41-64 for one address, with each fetcher's
\* scan split at its awaits: every ping, the blocking name lookup, every
\* connect and the blocking neighbour lookup is started in one step and
\* ends in another.

\* The greatest ping_count tried.
MaxPings == 2

ProbeHost == V4(1)

ProbeConfigs ==
    [max_threads : {1},
     scan_dead_hosts : BOOLEAN,
     port_string : ChainPortStrings,
     ping_count : 0..MaxPings,
     port_timeout_ms : {5},
     min_port_timeout_ms : {4},
     adapt_port_timeout : BOOLEAN]

\* Only one pipeline is run, as spawned by Scanner::scan for ProbeHost.
ProbeInit ==
    /\ config \in ProbeConfigs
    /\ registry = RegisterDefaultFetchers(RegistryNew)
    /\ args = [start |-> ProbeHost, end |-> ProbeHost]
    /\ feeder = NoFeeder
    /\ fed = <<>>
    /\ pc = "idle"
    /\ address = ProbeHost
    /\ permits = 0
    /\ held = FALSE
    /\ tasks = [h \in Hosts |-> NoTask]
    /\ results = EmptyBag
    /\ failures = 0
    /\ GuiUnused
    /\ FeederUnused
    /\ PortsUnused
    /\ RegistryUnused
    /\ SubjectUnused
    /\ probe = [NoProbe EXCEPT !.st = "running", !.result = ResultNew(ProbeHost)]

PbFrame == UNCHANGED <<scanVars, notScanUnits, rg_op, rg_covered, sj, sj_op>>

\* A return that leaves the result's classification as ScanResult::new set
\* it.
ChainReturnedUnset(p) == [p EXCEPT !.st = "done"]

\* The pipeline's return: result.set_type(subject.result_type()); result.
\* The subject is kept as it was when dropped.
ChainReturned(p) ==
    [p EXCEPT !.st = "done", !.result.result_type = p.subject.result_type]

\* fetcher.scan returned r: the match on it, the abort check and the next
\* iteration of the loop over the selected fetchers, or the return.
FetcherReturned(p, id, r, cfg, fs) ==
    IF Break(r.subject, cfg) \/ p.idx + 1 = Len(fs)
    THEN ChainReturned([p EXCEPT !.idx = p.idx + 1, !.at = "call",
                                 !.subject = r.subject,
                                 !.result = Recorded(p.result, id, r),
                                 !.last = [id |-> id, ok |-> r.ok]])
    ELSE [p EXCEPT !.idx = p.idx + 1, !.at = "call",
                   !.subject = r.subject,
                   !.result = Recorded(p.result, id, r),
                   !.last = [id |-> id, ok |-> r.ok]]

\* A blocking attempt is started and the fetcher suspends on it.
Awaiting(p, kind, arg) ==
    [p EXCEPT !.at = "await",
              !.attempts = Append(@, [kind |-> kind, arg |-> arg,
                                      outcome |-> "pending", ms |-> 0])]

\* The pending attempt ends.
Resolved(p, outcome, ms) ==
    [p EXCEPT !.attempts[Len(p.attempts)] =
                  [@ EXCEPT !.outcome = outcome, !.ms = ms]]

\* The fetcher the loop calls next.
Calls(id) ==
    /\ probe.st = "running"
    /\ probe.at = "call"
    /\ probe.idx < Len(GetSelectedFetchers(registry))
    /\ GetSelectedFetchers(registry)[probe.idx + 1] = id

\* The fetcher is suspended on an attempt of this kind.
Pending(kind) ==
    /\ probe.st = "running"
    /\ probe.at = "await"
    /\ probe.attempts[Len(probe.attempts)].kind = kind

\* The fetcher's locals at its entry.
Entered(p) == [p EXCEPT !.attempts = <<>>, !.todo = <<>>]

\* A ping loop that stops at the first reply.
PingsLeftUntilReply(sent, replied, cfg) ==
    IF replied THEN 0 ELSE cfg.ping_count - sent

\* for seq in 0..self.config.ping_count: the iterations left after `sent`
\* pings, whether or not the last one was replied to.
PingsLeft(sent, replied, cfg) == cfg.ping_count - sent

\* The round trips measured so far, 0 for an attempt without a reply.
Rtts(p) == [i \in 1..Len(p.attempts) |-> p.attempts[i].ms]

\* After a ping ended (or before the first): the next one, or the rest of
\* PingFetcher::scan.
PingGoesOn(p, replied, cfg, fs) ==
    IF PingsLeft(Len(p.attempts), replied, cfg) > 0
    THEN Awaiting(p, "ping", Len(p.attempts))
    ELSE FetcherReturned(p, "ping", PingScan(p.subject, cfg, TRUE, Rtts(p)),
                         cfg, fs)

\* PingFetcher::scan up to its first await: Client::new may fail.
PbCallPing ==
    /\ Calls("ping")
    /\ \E clientOk \in BOOLEAN :
          probe' = IF clientOk
                   THEN PingGoesOn(Entered(probe), FALSE, config,
                                   GetSelectedFetchers(registry))
                   ELSE FetcherReturned(Entered(probe), "ping",
                                        PingScan(probe.subject, config, FALSE, <<>>),
                                        config, GetSelectedFetchers(registry))
    /\ PbFrame

\* Ok(Ok((_, duration))): the reply came within ping_timeout_ms.
PbPingReply ==
    /\ Pending("ping")
    /\ \E d \in RttChoices \ {0} :
          probe' = PingGoesOn(Resolved(probe, "ok", d), TRUE, config,
                              GetSelectedFetchers(registry))
    /\ PbFrame

\* Ok(Err(_)): the ping failed.
PbPingError ==
    /\ Pending("ping")
    /\ probe' = PingGoesOn(Resolved(probe, "err", 0), FALSE, config,
                           GetSelectedFetchers(registry))
    /\ PbFrame

\* Err(Elapsed): timeout(ping_timeout_ms, ..) gave up on the ping.
PbPingTimeout ==
    /\ Pending("ping")
    /\ probe' = PingGoesOn(Resolved(probe, "timeout", 0), FALSE, config,
                           GetSelectedFetchers(registry))
    /\ PbFrame

\* HostnameFetcher::scan up to its await of spawn_blocking(lookup_addr).
PbCallHostname ==
    /\ Calls("hostname")
    /\ probe' = Awaiting(Entered(probe), "lookup", 0)
    /\ PbFrame

\* lookup_addr returned, Ok(hostname) or Err(_).
PbLookupReturns ==
    /\ Pending("lookup")
    /\ \E answer \in BOOLEAN :
          probe' = FetcherReturned(Resolved(probe, IF answer THEN "ok" ELSE "err", 0),
                                   "hostname",
                                   HostnameScan(probe.subject, TRUE, answer),
                                   config, GetSelectedFetchers(registry))
    /\ PbFrame

\* The blocking task was lost: a JoinError.
PbLookupLost ==
    /\ Pending("lookup")
    /\ probe' = FetcherReturned(Resolved(probe, "lost", 0), "hostname",
                                HostnameScan(probe.subject, FALSE, FALSE),
                                config, GetSelectedFetchers(registry))
    /\ PbFrame

\* The ports whose connect succeeded so far.
OpenPorts(p) ==
    {p.attempts[i].arg : i \in {j \in 1..Len(p.attempts) :
                                    p.attempts[j].outcome = "ok"}}

\* A port loop that stops at the first open port.
PortsLeftUntilOpen(todo, opened) == IF opened THEN <<>> ELSE todo

\* for port in port_iterator: the ports left after an attempt, whether or
\* not it found its port open.
PortsLeft(todo, opened) == todo

\* After a connect ended: the next port, or the rest of PortsFetcher::scan.
ConnectGoesOn(p, opened, cfg, fs) ==
    IF PortsLeft(p.todo, opened) # <<>>
    THEN [Awaiting(p, "connect", Head(PortsLeft(p.todo, opened)))
             EXCEPT !.todo = Tail(PortsLeft(p.todo, opened))]
    ELSE FetcherReturned(p, "ports", PortsScan(p.subject, cfg, OpenPorts(p)),
                         cfg, fs)

\* PortsFetcher::scan up to its first await: the specification is parsed
\* and, unless that fails or yields no port, the timeout is read and the
\* first connect started.
PbCallPorts ==
    /\ Calls("ports")
    /\ probe' =
          IF ~PortIteratorOf[config.port_string].ok
             \/ PortIteratorOf[config.port_string].ports = <<>>
          THEN FetcherReturned(Entered(probe), "ports",
                               PortsScan(probe.subject, config, {}),
                               config, GetSelectedFetchers(registry))
          ELSE [Awaiting(Entered(probe), "connect",
                         Head(PortIteratorOf[config.port_string].ports))
                   EXCEPT !.todo = Tail(PortIteratorOf[config.port_string].ports),
                          !.timeout_ms = PortsTimeout(probe.subject, config)]
    /\ PbFrame

\* Ok(Ok(_)): the connection was made within timeout_ms.
PbConnectOpen ==
    /\ Pending("connect")
    /\ probe' = ConnectGoesOn(Resolved(probe, "ok", 0), TRUE, config,
                              GetSelectedFetchers(registry))
    /\ PbFrame

\* Ok(Err(_)): the connection was refused or failed.
PbConnectRefused ==
    /\ Pending("connect")
    /\ probe' = ConnectGoesOn(Resolved(probe, "err", 0), FALSE, config,
                              GetSelectedFetchers(registry))
    /\ PbFrame

\* Err(Elapsed): timeout(timeout_ms, ..) gave up on the connect.
PbConnectTimeout ==
    /\ Pending("connect")
    /\ probe' = ConnectGoesOn(Resolved(probe, "timeout", 0), FALSE, config,
                              GetSelectedFetchers(registry))
    /\ PbFrame

\* MacFetcher::scan up to its await of spawn_blocking(get_mac_*).
PbCallMac ==
    /\ Calls("mac")
    /\ probe' = Awaiting(Entered(probe), "neigh", 0)
    /\ PbFrame

\* The neighbour lookup returned Some(mac) or None.
PbNeighReturns ==
    /\ Pending("neigh")
    /\ \E found \in BOOLEAN :
          probe' = FetcherReturned(Resolved(probe, IF found THEN "ok" ELSE "err", 0),
                                   "mac", MacScan(probe.subject, TRUE, found),
                                   config, GetSelectedFetchers(registry))
    /\ PbFrame

\* The blocking task was lost: a JoinError.
PbNeighLost ==
    /\ Pending("neigh")
    /\ probe' = FetcherReturned(Resolved(probe, "lost", 0), "mac",
                                MacScan(probe.subject, FALSE, FALSE),
                                config, GetSelectedFetchers(registry))
    /\ PbFrame

ProbeStep ==
    \/ PbCallPing
    \/ PbPingReply
    \/ PbPingError
    \/ PbPingTimeout
    \/ PbCallHostname
    \/ PbLookupReturns
    \/ PbLookupLost
    \/ PbCallPorts
    \/ PbConnectOpen
    \/ PbConnectRefused
    \/ PbConnectTimeout
    \/ PbCallMac
    \/ PbNeighReturns
    \/ PbNeighLost

ProbeSpec == ProbeInit /\ [][ProbeStep]_vars

\* What the pipeline does by itself: it runs on to its next await, and the
\* timers of its timeout(..) wrappers fire. Replies, refusals and the
\* return of a blocking lookup are the network's and the system's to give.
ProbeOwn ==
    \/ PbCallPing
    \/ PbCallHostname
    \/ PbCallPorts
    \/ PbCallMac
    \/ PbPingTimeout
    \/ PbConnectTimeout

\* The runtime keeps running the pipeline and its timers.
ProbeFairSpec == ProbeInit /\ [][ProbeStep]_vars /\ WF_vars(ProbeOwn)

\* ------------------------------------------------ a registry on its own

\* How many fetchers are registered in one registry.
MaxFetchers == 8

\* The fetchers handed to register.
FetcherIds == {"ping", "hostname", "ports", "mac"}

\* Only the registry is used: FetcherRegistry::new().
RegistryInit ==
    /\ ScanUnused
    /\ GuiUnused
    /\ FeederUnused
    /\ PortsUnused
    /\ SubjectUnused
    /\ ProbeUnused
    /\ rg_op = "new"
    /\ rg_covered = 0

\* registry.register(fetcher)
RgRegister ==
    /\ rg_op # "none"
    /\ Len(registry.fetchers) < MaxFetchers
    /\ \E f \in FetcherIds : registry' = Register(registry, f)
    /\ rg_op' = "register"
    /\ UNCHANGED <<config, feeder, fed, pc, address, permits, held, tasks,
                   results, failures, notScanUnits, rg_covered, sj, sj_op, probe>>

\* registry.register_default_fetchers(config)
RgRegisterDefault ==
    /\ rg_op # "none"
    /\ Len(registry.fetchers) + 4 <= MaxFetchers
    /\ registry' = RegisterDefaultFetchers(registry)
    /\ rg_op' = "register_default_fetchers"
    /\ rg_covered' = Len(registry.fetchers) + 4
    /\ UNCHANGED <<config, feeder, fed, pc, address, permits, held, tasks,
                   results, failures, notScanUnits, sj, sj_op, probe>>

RegistryStep == RgRegister \/ RgRegisterDefault

RegistrySpec == RegistryInit /\ [][RegistryStep]_vars

\* ------------------------------------------------- a subject on its own

\* The result types, the timeouts and the side-channel entries given to a
\* subject's setters.
ResultTypes == {"Unknown", "Dead", "Alive", "WithPorts"}
TimeoutChoices == {4, 5, 6}
ParameterKeys == {"k1", "k2"}
ParameterValues == {1, 2}

\* Only a subject is used: ScanningSubject::new(address, config).
SubjectInit ==
    /\ ScanUnused
    /\ GuiUnused
    /\ FeederUnused
    /\ PortsUnused
    /\ RegistryUnused
    /\ ProbeUnused
    /\ sj = SubjectNew
    /\ sj_op = "new"

SjFrame ==
    UNCHANGED <<scanVars, notScanUnits, rg_op, rg_covered, probe>>

\* subject.set_parameter(key, value)
SjSetParameter ==
    /\ sj_op # "none"
    /\ \E k \in ParameterKeys, v \in ParameterValues :
          sj' = SetParameter(sj, k, v)
    /\ sj_op' = "set_parameter"
    /\ SjFrame

\* subject.set_result_type(result_type)
SjSetResultType ==
    /\ sj_op # "none"
    /\ \E t \in ResultTypes : sj' = SetResultType(sj, t)
    /\ sj_op' = "set_result_type"
    /\ SjFrame

\* subject.abort()
SjAbort ==
    /\ sj_op # "none"
    /\ sj' = Abort(sj)
    /\ sj_op' = "abort"
    /\ SjFrame

\* subject.set_adapted_port_timeout(timeout)
SjSetAdaptedPortTimeout ==
    /\ sj_op # "none"
    /\ \E t \in TimeoutChoices : sj' = SetAdaptedPortTimeout(sj, t)
    /\ sj_op' = "set_adapted_port_timeout"
    /\ SjFrame

\* The getters (address, config, get_parameter, result_type, is_aborted,
\* adapted_port_timeout) take &self.
SjRead ==
    /\ sj_op # "none"
    /\ sj' = sj
    /\ sj_op' = "read"
    /\ SjFrame

SubjectStep ==
    \/ SjSetParameter
    \/ SjSetResultType
    \/ SjAbort
    \/ SjSetAdaptedPortTimeout
    \/ SjRead

SubjectSpec == SubjectInit /\ [][SubjectStep]_vars

\* ------------------------------------------------------------ properties

\* The orchestrator's state, in the words of the design.
ScanState ==
    CASE pc \in {"main", "idle"} -> "Idle"
      [] pc \in {"next", "acquire", "spawn"} -> "Running"
      [] pc = "join" -> "Draining"
      [] pc = "done" -> "Completed"
      [] OTHER -> "Failed"

Selected == GetSelectedFetchers(registry)

Active == {h \in Hosts : tasks[h].st = "running"}

FedSet == {fed[i] : i \in 1..Len(fed)}

ResultsFor(a) == {r \in BagToSet(results) : r.address = a}

\* The pipelines whose locals are still there to look at.
Live == {h \in Hosts : tasks[h].st \in {"running", "finished"}}

\* The classification of a live pipeline: the subject's while it runs, the
\* result's once it has returned.
Classification(h) ==
    IF tasks[h].st = "running" THEN tasks[h].subject.result_type
    ELSE tasks[h].result.result_type

Has(values, key) == key \in DOMAIN values

\* How many of the selected fetchers come up to and including `id`.
UpTo(id) == CHOOSE i \in 1..Len(Selected) : Selected[i] = id

\* C1: in every reachable state of a scan the pipelines started and not yet
\* finished number at most max_threads.
C1_ActiveAtMostMaxThreads == Cardinality(Active) <= config.max_threads

\* C1's case: every permit is taken and the dispatcher waits with the next
\* address in hand.
C1_Saturated ==
    /\ pc = "acquire"
    /\ config.max_threads >= 1
    /\ Cardinality(Active) = config.max_threads

\* C2: when scan has returned and no pipeline faulted, the aggregate holds
\* exactly one result per address the feeder produced and nothing else.
C2_OneResultPerAddress ==
    (pc = "done" /\ failures = 0) =>
        /\ BagCardinality(results) = Len(fed)
        /\ \A a \in FedSet :
              /\ Cardinality(ResultsFor(a)) = 1
              /\ \A r \in ResultsFor(a) : CopiesIn(r, results) = 1
        /\ \A r \in BagToSet(results) : r.address \in FedSet

\* C2's case: a scan of two addresses has returned without a fault, one of
\* the hosts Dead.
C2_ReturnedTwo ==
    /\ pc = "done"
    /\ failures = 0
    /\ Len(fed) = 2
    /\ \E r \in BagToSet(results) : r.result_type = "Dead"

\* C3: a host whose pings all failed is classified Dead by the liveness
\* probe (only the port probe may later turn it into WithPorts, and only
\* when scan_dead_hosts keeps the chain going); with scan_dead_hosts false
\* its chain ends right after the liveness probe, with scan_dead_hosts true
\* its chain ends only after every selected probe.
C3_DeadHostChain ==
    /\ \A h \in Live :
          LET t == tasks[h]
          IN (Has(t.result.values, "ping") /\ t.result.values["ping"] = NA) =>
                /\ Classification(h) \in {"Dead", "WithPorts"}
                /\ t.idx = UpTo("ping") => Classification(h) = "Dead"
                /\ Classification(h) = "WithPorts" =>
                      /\ config.scan_dead_hosts
                      /\ Has(t.result.values, "ports")
                /\ ~config.scan_dead_hosts =>
                      /\ t.st = "finished"
                      /\ t.idx = UpTo("ping")
                      /\ Classification(h) = "Dead"
                      /\ \A i \in (UpTo("ping") + 1)..Len(Selected) :
                            ~Has(t.result.values, Selected[i])
                /\ (config.scan_dead_hosts /\ t.st = "finished") =>
                      t.idx = Len(Selected)
    /\ \A r \in BagToSet(results) :
          (Has(r.values, "ping") /\ r.values["ping"] = NA
             /\ ~config.scan_dead_hosts) =>
                /\ r.result_type = "Dead"
                /\ \A i \in (UpTo("ping") + 1)..Len(Selected) :
                      ~Has(r.values, Selected[i])

\* C3's case: with scan_dead_hosts false a pipeline has ended after a
\* liveness probe whose pings all failed.
C3_DeadHostStopped ==
    \E h \in Hosts :
        /\ tasks[h].st = "finished"
        /\ ~config.scan_dead_hosts
        /\ Has(tasks[h].result.values, "ping")
        /\ tasks[h].result.values["ping"] = NA
        /\ tasks[h].idx = 1

\* C4: the timeout a host's port probe uses is max(3 * r, min_port_timeout_ms)
\* when adapt_port_timeout is set and that host's own liveness probe measured
\* the average r, and port_timeout_ms otherwise, whatever the other hosts
\* measured.
C4_PortTimeout ==
    \A h \in Live :
        LET t == tasks[h]
        IN t.timeout_ms.some =>
              IF /\ config.adapt_port_timeout
                 /\ Has(t.result.values, "ping")
                 /\ t.result.values["ping"] # NA
              THEN \E r \in RttChoices :
                      /\ t.result.values["ping"] = DecStr(r) \o <<" ", "m", "s">>
                      /\ t.timeout_ms.v = (IF 3 * r >= config.min_port_timeout_ms
                                           THEN 3 * r
                                           ELSE config.min_port_timeout_ms)
              ELSE t.timeout_ms.v = config.port_timeout_ms

\* C4's case: two pipelines side by side whose port probes used different
\* adapted timeouts, one at the floor and one above it.
C4_TwoHostsTwoTimeouts ==
    /\ config.adapt_port_timeout
    /\ tasks[V4(1)].st \in {"running", "finished"}
    /\ tasks[V4(2)].st \in {"running", "finished"}
    /\ Has(tasks[V4(1)].result.values, "ping")
    /\ tasks[V4(1)].result.values["ping"] = <<"1", " ", "m", "s">>
    /\ tasks[V4(1)].timeout_ms = Some(config.min_port_timeout_ms)
    /\ Has(tasks[V4(2)].result.values, "ping")
    /\ tasks[V4(2)].result.values["ping"] = <<"2", " ", "m", "s">>
    /\ tasks[V4(2)].timeout_ms = Some(6)

\* C5: with max_threads >= 1 and every probe returning, an Idle scan comes
\* to Running, a Running scan to Draining, and a Draining scan to Completed:
\* scan eventually returns the aggregate.
C5_ReachesCompleted ==
    (ScanState = "Idle" /\ config.max_threads >= 1)
        ~> (/\ ScanState = "Running"
            /\ <>(/\ ScanState = "Draining"
                  /\ <>(ScanState = "Completed")))

\* C5's case: a scan of more addresses than permits has returned.
C5_Completed ==
    /\ ScanState = "Completed"
    /\ config.max_threads = 1
    /\ Len(fed) = 2

\* C6: the permits taken from the semaphore are exactly those of the running
\* pipelines plus the one the dispatcher may hold before spawning; a pipeline
\* holds its permit exactly while it runs, however it ends; all permits are
\* free once scan has returned.
C6_PermitsReleased ==
    pc # "idle" =>
        /\ config.max_threads - permits =
              Cardinality(Active) + (IF held THEN 1 ELSE 0)
        /\ \A h \in Hosts : tasks[h].permit <=> tasks[h].st = "running"
        /\ pc = "done" => permits = config.max_threads

\* C6's case: the scan has returned after one pipeline panicked and another
\* returned with a probe error (no "ping" value).
C6_AllEndingsSeen ==
    /\ pc = "done"
    /\ config.max_threads >= 1
    /\ failures >= 1
    /\ \E r \in BagToSet(results) : ~Has(r.values, "ping")

\* C7: when scan returns, every pipeline it spawned has been joined: none is
\* running or waiting to be joined, and the aggregate holds the result of
\* every pipeline that returned one.
C7_ReturnsAfterAllJoined ==
    pc = "done" =>
        /\ \A a \in FedSet : tasks[a].st \in {"joined", "faulted"}
        /\ \A h \in Hosts \ FedSet : tasks[h].st = "none"
        /\ \A a \in FedSet : tasks[a].st = "joined" => ResultsFor(a) # {}
        /\ BagCardinality(results) + failures = Len(fed)

\* C7's case: scan has returned after running two pipelines at once.
C7_ReturnedAfterTwo ==
    /\ pc = "done"
    /\ config.max_threads = 2
    /\ Len(fed) = 2
    /\ tasks[V4(1)].st = "joined"
    /\ tasks[V4(2)].st = "joined"

\* C8: a host whose pipeline faulted has no entry in the aggregate, every
\* other host has its entry, and the fault never makes the scan fail.
C8_FaultExcludesOnlyItsHost ==
    /\ ScanState # "Failed"
    /\ pc = "done" =>
          \A a \in FedSet :
              IF tasks[a].st = "faulted" THEN ResultsFor(a) = {}
              ELSE Cardinality(ResultsFor(a)) = 1

\* C8's case: scan has returned, one host faulted and the other is in the
\* aggregate.
C8_OneFaultOneResult ==
    /\ pc = "done"
    /\ \E a, b \in FedSet :
          /\ tasks[a].st = "faulted"
          /\ tasks[b].st = "joined"
          /\ ResultsFor(b) # {}

\* C9: an invalid port specification makes the scan fail before any pipeline
\* has started; no pipeline ever runs under it.
C9_InvalidPortsNoPipeline ==
    ~PortIteratorOf[config.port_string].ok =>
        /\ \A h \in Hosts : tasks[h].st = "none"
        /\ ScanState # "Completed"

\* C10: every probe a pipeline has invoked has a value in the host's result
\* (the sentinel when the probe failed), and a failed probe does not end the
\* chain.
C10_FailedProbeLeavesSentinel ==
    \A h \in Live :
        /\ \A i \in 1..tasks[h].idx : Has(tasks[h].result.values, Selected[i])
        /\ (tasks[h].st = "finished" /\ tasks[h].idx < Len(Selected)) =>
              /\ ~config.scan_dead_hosts
              /\ Has(tasks[h].result.values, "ping")
              /\ tasks[h].result.values["ping"] = NA

\* C13: a feeder built over [start, end] returns start, start+1, ... in
\* ascending order, never more than the n addresses of the range; once it
\* has returned end-of-sequence it has returned all n, each once, and it
\* returns no address afterwards.
C13_YieldsRangeOnce ==
    rf.st = "ok" =>
        LET n == rf_in.end.num - rf_in.start.num + 1
        IN /\ Len(rf_yielded) <= n
           /\ \A i \in 1..Len(rf_yielded) :
                 rf_yielded[i] = [fam |-> rf_in.start.fam,
                                  num |-> rf_in.start.num + i - 1]
           /\ rf_nones > 0 => Len(rf_yielded) = n

\* C13's case: a range of three addresses ending at the greatest address of
\* its family has been traversed, and two further calls returned
\* end-of-sequence.
C13_TraversedToTop ==
    /\ Len(rf_yielded) = 3
    /\ rf_nones = 2
    /\ rf_in.end.num = MaxNum(rf_in.end.fam)

\* C14: RangeFeeder::new returns InvalidRange exactly when the families
\* differ or start > end, and a feeder otherwise.
C14_NewFailsExactly ==
    rf.st # "uncalled" =>
        /\ rf.st = "err" <=> (\/ rf_in.start.fam # rf_in.end.fam
                              \/ rf_in.start.num > rf_in.end.num)
        /\ rf.st = "ok" <=> (/\ rf_in.start.fam = rf_in.end.fam
                             /\ rf_in.start.num <= rf_in.end.num)

\* C14's case: new has accepted a range of one address.
C14_SingleAddressAccepted ==
    /\ rf.st = "ok"
    /\ rf_in.start = rf_in.end

\* C16: total_addresses() of a fresh feeder is the number of addresses of
\* its range, or usize::MAX when that number is not representable; it never
\* overflows or wraps.
C16_TotalExactOrSaturated ==
    rf_total.st # "uncalled" =>
        LET n == rf_in.end.num - rf_in.start.num + 1
            usize_max == 2 ^ USIZE_BITS - 1
        IN /\ rf_total.st = "returned"
           /\ rf_total.v = (IF n > usize_max THEN usize_max ELSE n)

\* C17: the ports of an accepted specification are strictly ascending, hence
\* without repeats, and number at most 65535; so are those of its re-parsed
\* compression.
C17_AscendingAndCapped ==
    \A r \in {ps, ps_again} :
        r.st = "ok" =>
            /\ \A i \in 1..(Len(r.ports) - 1) : r.ports[i] < r.ports[i + 1]
            /\ Len(r.ports) <= 65535

\* C17's case: "80-82,81" (a range, then a port inside it, out of order and
\* overlapping) has been accepted.
C17_OverlapAccepted ==
    /\ ps.st = "ok"
    /\ ps_in.text = <<"8", "0", "-", "8", "2", ",", "8", "1">>
    /\ ps.ports = <<80, 81, 82>>

\* C18: when all the ports of an accepted specification are compressed and
\* the text is parsed again, the parse succeeds with the same set of ports.
C18_RoundTrip ==
    (ps_again.st # "uncalled" /\ ps_open = ps.ports) =>
        /\ ps_again.st = "ok"
        /\ {ps_again.ports[i] : i \in 1..Len(ps_again.ports)}
              = {ps.ports[i] : i \in 1..Len(ps.ports)}

\* C18's case: "80-82,0" was parsed, compressed to the different text
\* "0,80-82" and parsed again.
C18_RoundTripDone ==
    /\ ps_again.st = "ok"
    /\ ps_open = ps.ports
    /\ ps_in.text = <<"8", "0", "-", "8", "2", ",", "0">>
    /\ ps_text.v = <<"0", ",", "8", "0", "-", "8", "2">>

\* The indices where a maximal run of consecutive ports starts, and where
\* one ends.
RunStarts(p) ==
    SelectSeq([i \in 1..Len(p) |-> i], LAMBDA i : i = 1 \/ p[i] # p[i - 1] + 1)

RunEnds(p) ==
    SelectSeq([i \in 1..Len(p) |-> i],
              LAMBDA i : i = Len(p) \/ p[i + 1] # p[i] + 1)

\* The text of the maximal runs of a sorted list without repeats: `lo` for a
\* run of one, `lo-hi` for a longer one, in ascending order, joined by commas.
RunsText(p) ==
    Join([k \in 1..Len(RunStarts(p)) |->
             LET lo == p[RunStarts(p)[k]]
                 hi == p[RunEnds(p)[k]]
             IN IF lo = hi THEN DecStr(lo)
                ELSE DecStr(lo) \o <<"-">> \o DecStr(hi)],
         <<",">>)

\* C19: for a sorted list without repeats format_ports writes its maximal
\* runs of consecutive ports, and the empty string for the empty list.
C19_MaximalRuns ==
    ps_text.some =>
        /\ ps_text.v = RunsText(ps_open)
        /\ ps_open = <<>> => ps_text.v = <<>>

\* C19's case: of the ports 80, 81, 82 and 65535 those open, 80, 81 and
\* 65535, were written as "80-81,65535".
C19_RunsWritten ==
    /\ ps.ports = <<80, 81, 82, 65535>>
    /\ ps_open = <<80, 81, 65535>>
    /\ ps_text = [some |-> TRUE,
                  v |-> <<"8", "0", "-", "8", "1", ",", "6", "5", "5", "3", "5">>]

\* A decimal port in 0..65535: digits only.
IsDecimalPort(s) ==
    /\ s # <<>>
    /\ \A i \in 1..Len(s) : IsDigit(s[i])
    /\ DigitsValue(s, 0) # -1

\* A token of the grammar: a decimal port, or lo-hi of two decimal ports
\* with lo <= hi; whitespace around the token and its ports is ignored.
InGrammar(token) ==
    LET tk == Trim(token)
    IN \/ IsDecimalPort(tk)
       \/ /\ Len(Split(tk, "-")) = 2
          /\ IsDecimalPort(Trim(Split(tk, "-")[1]))
          /\ IsDecimalPort(Trim(Split(tk, "-")[2]))
          /\ DigitsValue(Trim(Split(tk, "-")[1]), 0)
                <= DigitsValue(Trim(Split(tk, "-")[2]), 0)

\* C20: when some comma-separated token is outside the grammar,
\* PortIterator::new does not succeed and produces no ports.
C20_OutsideGrammarFails ==
    (/\ ps.st # "uncalled"
     /\ \E i \in 1..Len(Split(ps_in.text, ",")) :
           ~InGrammar(Split(ps_in.text, ",")[i])) =>
        /\ ps.st # "ok"
        /\ ps.ports = <<>>

\* C15: when RangeFeeder::new fails for the addresses asked for, the scan
\* never leaves its start but to fail: no permit is acquired, no pipeline
\* is started, no probe runs, no address is fed and no result is produced.
C15_NoPipelineAfterFailedNew ==
    ~RangeFeederNew(args.start, args.end).ok =>
        /\ pc \in {"main", "failed"}
        /\ \A h \in Hosts : tasks[h] = NoTask
        /\ permits = 0
        /\ ~held
        /\ fed = <<>>
        /\ results = EmptyBag

\* C15's case: main has failed on a start and an end of different families.
C15_FailedOnMixedFamilies ==
    /\ pc = "failed"
    /\ ScanState = "Failed"
    /\ args.start.fam # args.end.fam

\* The rows of the window's shared results for an address.
RowsFor(a) == {r \in BagToSet(results) : r.address = a}

\* The pipelines of the window that have run to their end.
Ended == {h \in Hosts : tasks[h].st \in {"finished", "joined"}}

\* C11: once stop_scan has been called no further pipeline is started for
\* that scan, and the call itself leaves the pipelines in flight as they
\* are, to run to their end.
C11_NoDispatchAfterStop ==
    [][/\ stopped => \A h \in Hosts :
                        tasks[h].st = "none" => tasks'[h].st = "none"
       /\ (~stopped /\ stopped') => tasks' = tasks]_vars

C22_SelectsAllRegistered ==
    rg_op # "none" => GetSelectedFetchers(registry) = registry.fetchers

\* C22 (amended): get_selected_fetchers returns, in the order registered, the
\* fetchers registered up to and by the last register_default_fetchers call,
\* and none when it was never called.
C22_SelectsUpToDefaults ==
    rg_op # "none" =>
        GetSelectedFetchers(registry) = SubSeq(registry.fetchers, 1, rg_covered)

\* A fetcher registered before the defaults is selected, one registered
\* after them is not.
C22_DefaultsThenMore ==
    /\ rg_covered = 5
    /\ Len(registry.fetchers) = 6
    /\ Len(GetSelectedFetchers(registry)) = 5

\* C23: register alone never changes the selection, so a new registry and
\* one that saw only register calls select nothing; after
\* register_default_fetchers the selection is every fetcher registered so
\* far, in the order registered.
C23_OnlyDefaultsSelect ==
    [][/\ rg_op = "new" => GetSelectedFetchers(registry) = <<>>
       /\ rg_op' = "register" =>
              /\ registry'.selected = registry.selected
              /\ rg_covered = 0 => GetSelectedFetchers(registry') = <<>>
       /\ rg_op' = "register_default_fetchers" =>
              /\ registry'.selected = [i \in 1..Len(registry'.fetchers) |-> i - 1]
              /\ GetSelectedFetchers(registry') = registry'.fetchers
              /\ SubSeq(registry'.fetchers, 1, Len(registry.fetchers))
                     = registry.fetchers]_vars

\* Two fetchers registered and nothing selected; then the defaults.
C23_RegisteredUnselected ==
    /\ rg_op = "register"
    /\ Len(registry.fetchers) = 2
    /\ registry.selected = <<>>

\* C30: a subject's abort flag is false at creation and, once abort() has
\* set it, stays set under every later call of the subject's methods.
C30_AbortMonotonic ==
    [][/\ sj_op = "new" => ~sj.aborted
       /\ sj_op' = "abort" => sj'.aborted
       /\ sj.aborted => sj'.aborted]_vars

\* An aborted subject whose other fields were all written after the abort.
C30_WrittenAfterAbort ==
    /\ sj.aborted
    /\ sj_op = "set_parameter"
    /\ sj.result_type = "Alive"
    /\ sj.adapted_port_timeout = Some(4)
    /\ DOMAIN sj.parameters = ParameterKeys

\* The pipelines started so far.
Started == {h \in Hosts : tasks[h].st # "none"}

\* C25: the dispatcher takes the next address only after the previous
\* address's pipeline was started, so the addresses taken exceed the
\* pipelines started by at most one, and it holds that one address exactly
\* while it waits for a permit or is about to spawn; with no permit free it
\* stays where it is.
C25_BackpressureAtAcquire ==
    /\ Len(fed) - Cardinality(Started) \in {0, 1}
    /\ Len(fed) - Cardinality(Started) = 1 <=> pc \in {"acquire", "spawn"}
    /\ (pc = "acquire" /\ permits = 0) =>
           ~ENABLED (FeederNext \/ Acquire \/ Spawn)

\* The only permit held by a running pipeline and a second address taken
\* but not started.
C25_BlockedWithOneTaken ==
    /\ pc = "acquire"
    /\ permits = 0
    /\ config.max_threads = 1
    /\ Len(fed) = 2
    /\ Cardinality(Active) = 1
    /\ Cardinality(Started) = 1

\* C29: a step of one host's pipeline leaves every other pipeline's
\* subject, position and result as they were, and a chain ends before its
\* last fetcher only when the fetcher it ran last left that host's own
\* subject aborted.
C29_HostIsolation ==
    [][\A h \in Hosts :
          /\ (tasks[h].st = "running" /\ tasks'[h] # tasks[h]) =>
                 \A g \in Hosts \ {h} : tasks'[g] = tasks[g]
          /\ (/\ tasks[h].st = "running"
              /\ tasks'[h].st = "finished"
              /\ tasks'[h].idx < Len(GetSelectedFetchers(registry))) =>
                 \E env \in StepEnvs(tasks[h], h, config,
                                     GetSelectedFetchers(registry)) :
                    /\ FetcherScan(GetSelectedFetchers(registry)[tasks'[h].idx],
                                   tasks[h].subject, config, env).subject.aborted
                    /\ tasks'[h] = AfterStep(tasks[h], h, config,
                                             GetSelectedFetchers(registry), env)]_vars

\* One host's chain was cut after the liveness probe while another host's
\* chain, running at the same time, is past it and not aborted.
C29_OneCutOneRunning ==
    /\ tasks[V4(1)].st = "finished"
    /\ tasks[V4(1)].idx = 1
    /\ tasks[V4(2)].st = "running"
    /\ tasks[V4(2)].idx = 3
    /\ ~tasks[V4(2)].subject.aborted

\* The fetcher at work in the chain on its own.
Running == GetSelectedFetchers(registry)[probe.idx + 1]

\* A step in which that fetcher returns.
Returns(id) ==
    /\ probe.st = "running"
    /\ Running = id
    /\ probe'.idx = probe.idx + 1

\* The fetcher has just returned: the loop has not called the next one.
JustReturned(id) ==
    /\ probe.last.id = id
    /\ probe.at = "call"

\* The ports the chain has tried to connect to, in the order tried.
Tried(p) == [i \in 1..Len(p.attempts) |-> p.attempts[i].arg]

\* How many of the attempts made had this outcome.
Count(p, outcome) ==
    Cardinality({i \in 1..Len(p.attempts) : p.attempts[i].outcome = outcome})

\* C21: under an empty port specification the port probe returns "[n/s]"
\* for the host, attempts no connection and leaves the classification as
\* it was.
C21_EmptySpecGivesNS ==
    [][(Returns("ports") /\ config.port_string = <<>>) =>
          /\ Has(probe'.result.values, "ports")
          /\ probe'.result.values["ports"] = NS
          /\ probe'.attempts = <<>>
          /\ probe'.subject.result_type = probe.subject.result_type]_vars

\* C24: every blocking attempt of the four probes (each ping, the name
\* lookup, each connect, the neighbour lookup) ends, by its own timeout if
\* by nothing else, so the pipeline always gets past it.
C24_EveryAttemptEnds ==
    \A kind \in {"ping", "lookup", "connect", "neigh"} :
        \A n \in 1..(MaxPings + 3) :
            (Pending(kind) /\ Len(probe.attempts) = n)
                ~> ~(Pending(kind) /\ Len(probe.attempts) = n)

\* C26 (as written): whenever the liveness probe has returned it has made
\* exactly ping_count attempts, one after another, and has set Alive if one
\* succeeded and Dead otherwise.
C26_AlwaysPingCountAttempts ==
    JustReturned("ping") =>
        /\ Len(probe.attempts) = config.ping_count
        /\ probe.subject.result_type =
               IF Count(probe, "ok") > 0 THEN "Alive" ELSE "Dead"

\* C26 (amended): a liveness probe that fails before its first attempt
\* makes none and leaves the subject as it was; otherwise it makes exactly
\* ping_count attempts in sequence whatever their outcomes, sets Alive iff
\* one succeeded and else Dead with output "[n/a]", sets the abort flag iff
\* none succeeded and scan_dead_hosts is off, and stores an adapted timeout
\* iff one succeeded and adapt_port_timeout is on.
C26_PingProbe ==
    JustReturned("ping") =>
        IF ~probe.last.ok
        THEN /\ probe.attempts = <<>>
             /\ probe.subject = SubjectNew
        ELSE /\ Len(probe.attempts) = config.ping_count
             /\ \A i \in 1..Len(probe.attempts) :
                    /\ probe.attempts[i].kind = "ping"
                    /\ probe.attempts[i].arg = i - 1
                    /\ probe.attempts[i].outcome \in {"ok", "err", "timeout"}
             /\ probe.subject.result_type = "Alive" <=> Count(probe, "ok") > 0
             /\ probe.subject.result_type = "Dead" <=> Count(probe, "ok") = 0
             /\ Count(probe, "ok") = 0 => probe.result.values["ping"] = NA
             /\ probe.subject.aborted <=>
                    (Count(probe, "ok") = 0 /\ ~config.scan_dead_hosts)
             /\ probe.subject.adapted_port_timeout.some <=>
                    (Count(probe, "ok") > 0 /\ config.adapt_port_timeout)

\* The first ping was answered and the second was still sent, and timed
\* out.
C26_RepliedThenTimedOut ==
    /\ JustReturned("ping")
    /\ probe.last.ok
    /\ Len(probe.attempts) = 2
    /\ probe.attempts[1].outcome = "ok"
    /\ probe.attempts[2].outcome = "timeout"
    /\ probe.subject.result_type = "Alive"

\* C27: under a valid specification that names a port, the port probe
\* tries every port once, one at a time and in ascending order, and does
\* not touch the subject meanwhile; when it returns it has set WithPorts
\* and written the compressed list of the open ports if a connect
\* succeeded, whatever the classification was, and otherwise has written
\* "[n/a]" and left the classification as it was.
C27_PortProbe ==
    [][/\ (probe.st = "running" /\ Running = "ports" /\ probe'.idx = probe.idx) =>
              probe'.subject = probe.subject
       /\ (Returns("ports") /\ probe'.last.ok) =>
              /\ Tried(probe') = PortIteratorOf[config.port_string].ports
              /\ \A i \in 1..Len(probe'.attempts) :
                     /\ probe'.attempts[i].kind = "connect"
                     /\ probe'.attempts[i].outcome \in {"ok", "err", "timeout"}
                     /\ i > 1 => probe'.attempts[i - 1].arg < probe'.attempts[i].arg
              /\ IF OpenPorts(probe') # {}
                 THEN /\ probe'.subject.result_type = "WithPorts"
                      /\ probe'.result.values["ports"] =
                             format_ports(SelectSeq(Tried(probe'),
                                                    LAMBDA q : q \in OpenPorts(probe')))
                 ELSE /\ probe'.subject.result_type = probe.subject.result_type
                      /\ probe'.result.values["ports"] = NA]_vars

\* A host no ping reached, kept in the chain by scan_dead_hosts, whose
\* middle port of three answered.
C27_DeadHostWithPorts ==
    /\ JustReturned("ports")
    /\ probe.last.ok
    /\ Has(probe.result.values, "ping")
    /\ probe.result.values["ping"] = NA
    /\ Tried(probe) = <<80, 81, 82>>
    /\ OpenPorts(probe) = {81}
    /\ probe.subject.result_type = "WithPorts"
    /\ probe.result.values["ports"] = <<"8", "1">>

\* C28: in a host's chain the classification becomes Dead or Alive only in
\* the liveness probe and WithPorts only in the port probe, and nothing
\* makes it Unknown again; the name and link-address probes leave the
\* classification, the abort flag and the adapted timeout as they were.
C28_WhoWritesClassification ==
    [][probe.st = "running" =>
          /\ probe'.subject.result_type # probe.subject.result_type =>
                 /\ probe'.subject.result_type \in {"Dead", "Alive"} =>
                        Running = "ping"
                 /\ probe'.subject.result_type = "WithPorts" =>
                        Running = "ports"
                 /\ probe'.subject.result_type # "Unknown"
          /\ Running \in {"hostname", "mac"} =>
                 /\ probe'.subject.result_type = probe.subject.result_type
                 /\ probe'.subject.aborted = probe.subject.aborted
                 /\ probe'.subject.adapted_port_timeout =
                        probe.subject.adapted_port_timeout]_vars

\* A chain run to its end for a host with a name and a link address that
\* no ping reached.
C28_NamedButDead ==
    /\ probe.st = "done"
    /\ probe.idx = 4
    /\ DOMAIN probe.result.values = FetcherIds
    /\ probe.result.values["hostname"] = <<"h", "o", "s", "t">>
    /\ probe.result.values["mac"] = <<"A", "A", ":", "B", "B">>
    /\ probe.result.result_type = "Dead"

\* The greatest address of the family of the range asked for.
Top == [fam |-> rf_in.end.fam, num |-> MaxNum(rf_in.end.fam)]

\* C31: a range that ends at the greatest address of its family is traversed
\* without wrapping: the addresses come strictly ascending, the greatest one
\* comes once and last, and the call after it returns end-of-sequence.
C31_TopEmittedLast ==
    (rf.st = "ok" /\ rf_in.end = Top) =>
        /\ \A i \in 1..(Len(rf_yielded) - 1) :
              rf_yielded[i].num < rf_yielded[i + 1].num
        /\ \A i \in 1..Len(rf_yielded) :
              rf_yielded[i] = Top => i = Len(rf_yielded)
        /\ (rf_yielded # <<>> /\ rf_yielded[Len(rf_yielded)] = Top) =>
              ~NextAddress(rf.feeder).out.some
        /\ rf_nones > 0 =>
              /\ rf_yielded # <<>>
              /\ rf_yielded[Len(rf_yielded)] = Top

\* C31's case: the IPv6 range of the two greatest addresses was traversed,
\* the greatest address came second, and the next call returned
\* end-of-sequence.
C31_TopThenNone ==
    /\ rf_in.end = V6(MaxNum("V6"))
    /\ rf_yielded = <<V6(MaxNum("V6") - 1), V6(MaxNum("V6"))>>
    /\ rf_nones = 1

\* C32: total_addresses() returns the same value, the number of addresses
\* of the range, when it is called after next_address calls as it returned
\* on the fresh feeder.
C32_TotalUnchanged ==
    rf_later.st # "uncalled" => rf_later = rf_total

\* C37: with max_threads = 0 the semaphore never has a permit: the
\* dispatcher takes the first address, waits for a permit and stays there;
\* no pipeline is started, no result is produced and scan never returns.
C37_ZeroThreadsBlocks ==
    config.max_threads = 0 =>
        /\ pc \in {"idle", "next", "acquire"}
        /\ Len(fed) <= 1
        /\ Started = {}
        /\ results = EmptyBag
        /\ pc = "acquire" => (permits = 0 /\ ~ENABLED Next)

\* C37's case: the dispatcher of a scan with max_threads = 0 holds the first
\* address and waits for a permit.
C37_BlockedAtFirstAddress ==
    /\ config.max_threads = 0
    /\ pc = "acquire"
    /\ Len(fed) = 1
    /\ address = fed[1]
    /\ ~held

\* C36: with the fetchers in their default order, once the liveness probe
\* has returned a value the classification is Dead, Alive or WithPorts, in
\* the subject from then on and in the result at the end; a finished chain
\* is Unknown only when the liveness probe returned an error and the port
\* probe found no open port.
C36_UnknownOnlyWithoutPing ==
    /\ (probe.st \in {"running", "done"} /\ Has(probe.result.values, "ping")) =>
           probe.subject.result_type \in {"Dead", "Alive", "WithPorts"}
    /\ probe.st = "done" =>
           /\ probe.result.result_type
                 \in {"Unknown", "Dead", "Alive", "WithPorts"}
           /\ Has(probe.result.values, "ping") =>
                 probe.result.result_type \in {"Dead", "Alive", "WithPorts"}
           /\ probe.result.result_type = "Unknown" =>
                 /\ ~Has(probe.result.values, "ping")
                 /\ Has(probe.result.values, "ports") =>
                        probe.result.values["ports"] \in {NS, NA}

\* C36's case: the liveness probe failed, the other three fetchers ran, no
\* port tried was open, and the chain ended Unknown.
C36_PingFailedNothingOpen ==
    /\ probe.st = "done"
    /\ probe.idx = 4
    /\ ~Has(probe.result.values, "ping")
    /\ Has(probe.result.values, "ports")
    /\ probe.result.values["ports"] = NA
    /\ probe.result.result_type = "Unknown"

\* C35: the list the port probe hands to format_ports is a subsequence of
\* the parsed ports, strictly ascending, so every `end + 1` format_ports
\* evaluates, one for each port but the last, stays within u16, also when
\* 65535 is open.
C35_FormatInputAscending ==
    ps_text.some =>
        /\ \A i \in 1..(Len(ps_open) - 1) : ps_open[i] < ps_open[i + 1]
        /\ \A i \in 1..(Len(ps_open) - 1) : ps_open[i] + 1 <= U16_MAX
        /\ ps_open = SelectSeq(ps.ports,
                               LAMBDA p : \E i \in 1..Len(ps_open) :
                                              ps_open[i] = p)

\* C35's case: "65535,80" was parsed, both ports were open, and
\* format_ports wrote "80,65535".
C35_TopPortOpen ==
    /\ ps_in.text = <<"6", "5", "5", "3", "5", ",", "8", "0">>
    /\ ps_open = <<80, 65535>>
    /\ ps_text = [some |-> TRUE,
                  v |-> <<"8", "0", ",", "6", "5", "5", "3", "5">>]

\* C33: while PortIterator::new expands a specification, its list of ports
\* never holds more than 65535 entries.
C33_NeverAboveCap ==
    ps.st # "uncalled" => ps_peak <= 65535

\* The tokens of the specification parsed.
PartsIn == Split(ps_in.text, ",")

\* A token that is a range of the grammar.
IsRangeToken(token) == InGrammar(token) /\ Contains(Trim(token), "-")

\* The number of entries a token of the grammar stands for: 1 for a port,
\* hi - lo + 1 for a range.
EntriesOf(token) ==
    IF IsRangeToken(token)
    THEN DigitsValue(Trim(Split(Trim(token), "-")[2]), 0)
            - DigitsValue(Trim(Split(Trim(token), "-")[1]), 0) + 1
    ELSE 1

\* The entries of the tokens before the i-th.
EntriesBefore(i) == SumSeq([k \in 1..(i - 1) |-> EntriesOf(PartsIn[k])])

\* C34: a specification of the grammar is rejected with an error whenever,
\* at one of its range tokens, the entries accumulated so far plus the
\* size of the range exceed 65535; so 0-65535 is always rejected.
C34_RangeOverCapRejected ==
    (/\ ps.st # "uncalled"
     /\ \A i \in 1..Len(PartsIn) : InGrammar(PartsIn[i])
     /\ \E i \in 1..Len(PartsIn) :
           /\ IsRangeToken(PartsIn[i])
           /\ EntriesBefore(i) + EntriesOf(PartsIn[i]) > 65535) =>
        ps.st = "err"

\* C38: while a scan of the window runs, the progress count in the shared
\* state never decreases from one write to the next.
C38_ProgressNeverDecreases ==
    [][(scan_state.tag = "Scanning" /\ scan_state'.tag = "Scanning") =>
           scan_state'.current >= scan_state.current]_vars

\* C39: once stop_scan has set the state to Idle, the state stays Idle until
\* Start is clicked again: nothing of the stopped scan writes Scanning or
\* Completed.
C39_IdleAfterStop ==
    [][(stopped /\ scan_state = Idle) =>
           (scan_state' = Idle \/ scans_left' # scans_left)]_vars

\* C40: the shared list of results holds only rows of the scan started
\* last: every row in it is the row of a pipeline of that scan that has
\* ended, once.
C40_OnlyRowsOfThisScan ==
    \A r \in BagToSet(results) :
        /\ CopiesIn(r, results) = 1
        /\ \E h \in Ended : r = GuiResult(tasks[h].result)

====
